---- MODULE Spec2Model ----
(***************************************************************************)
(* bunker-stats: the rolling-window, pairwise and accumulator functions of *)
(* the statistics engine, together with the Python reference               *)
(* implementations the repository's tests and benchmark compare them with. *)
(*                                                                         *)
(* Numbers.  A double is carried as an exact rational <<num, den>> in      *)
(* lowest terms with den > 0; <<0,0>> is NaN, <<1,0>> is +inf and <<-1,0>> *)
(* is -inf.  A value that is a square root (std, zscore, corr) is carried  *)
(* as the tagged triple <<num, den, "sqrt">>, which stands for             *)
(* sgn(num) * sqrt(|num| / den).  Rounding error is not modelled, so an    *)
(* "equal within 1e-9" of the tests is equality here.                      *)
(*                                                                         *)
(* The benchmark driver (bench_compare_backends_enhanced.py) and the       *)
(* facade's export list are a second state machine, DriverSpec, over the   *)
(* driver variables; the engine variables are idle there and the driver    *)
(* variables are idle under Spec.                                          *)
(***************************************************************************)
EXTENDS Integers, Sequences, FiniteSets, TLC

VARIABLES
    fn,       \* the function under test in this run
    x,        \* first input sequence
    y,        \* second input sequence (pair functions), else << >>
    window,   \* the window argument w
    param,    \* the other scalar argument: periods, n_bins or k
    i,        \* index of the next element the sliding core consumes
    acc,      \* the accumulators of the running core
    out,      \* what the engine function has produced so far
    ref,      \* what the Python reference implementation returned
    pc,       \* "call", "run", "done", "error"
    args,     \* the benchmark driver's command line (argparse namespace)
    env,      \* what the child process of each case does when it is run
    cases,    \* the list of cases built from the export list
    skip,     \* the parsed skip list
    case_i,   \* how many cases the driver's loop has been through
    rows,     \* the result rows collected so far
    fieldnames, \* the CSV header
    dpc       \* the driver's position: "idle", "start", "loop", "write",
              \* "written"

\* the benchmark driver's variables
driver == <<args, env, cases, skip, case_i, rows, fieldnames, dpc>>

\* the engine run's variables
engine == <<fn, x, y, window, param, i, acc, out, ref, pc>>

vars == <<fn, x, y, window, param, i, acc, out, ref, pc,
          args, env, cases, skip, case_i, rows, fieldnames, dpc>>

----------------------------------------------------------------------------
(* Arithmetic on doubles *)

Abs(a) == IF a < 0 THEN -a ELSE a

Sgn(a) == IF a < 0 THEN -1 ELSE IF a > 0 THEN 1 ELSE 0

Max(a, b) == IF a >= b THEN a ELSE b

RECURSIVE GCD(_, _)
GCD(a, b) == IF b = 0 THEN a ELSE GCD(b, a % b)

Norm(n, d) ==
    IF d = 0 THEN <<Sgn(n), 0>>
    ELSE LET g == GCD(Abs(n), Abs(d))
             s == IF d < 0 THEN -1 ELSE 1
         IN  <<(s * n) \div g, (s * d) \div g>>

Num(v) == <<v, 1>>

NaN == <<0, 0>>

IsNaN(a) == a[1] = 0 /\ a[2] = 0

IsFinite(a) == a[2] # 0

Neg(a) == <<-a[1], a[2]>>

Add(a, b) ==
    IF a[2] # 0 /\ b[2] # 0 THEN Norm(a[1] * b[2] + b[1] * a[2], a[2] * b[2])
    ELSE IF IsNaN(a) \/ IsNaN(b) THEN NaN
    ELSE IF a[2] = 0 /\ b[2] = 0 THEN (IF a[1] = b[1] THEN a ELSE NaN)
    ELSE IF a[2] = 0 THEN a ELSE b

Sub(a, b) == Add(a, Neg(b))

Mul(a, b) == Norm(a[1] * b[1], a[2] * b[2])

Inv(a) == IF a[1] < 0 THEN <<-a[2], -a[1]>> ELSE <<a[2], a[1]>>

Div(a, b) == Mul(a, Inv(b))

Lt(a, b) == a[1] * b[2] < b[1] * a[2]

\* sqrt(a): NaN for NaN and for a negative argument
Sqrt(a) == IF a[1] < 0 THEN <<0, 0, "sqrt">> ELSE <<a[1], a[2], "sqrt">>

RootNaN == <<0, 0, "sqrt">>

IsRootNaN(r) == r[1] = 0 /\ r[2] = 0

\* the rational under the root sign (the square of the root's magnitude)
Radicand(r) == <<Abs(r[1]), r[2]>>

\* a / r for a rational a and a root r >= 0
DivRoot(a, r) ==
    LET q == Div(Mul(Num(Sgn(a[1])), Mul(a, a)), Radicand(r))
    IN  <<q[1], q[2], "sqrt">>

\* r * s for two roots r, s >= 0
MulRoot(r, s) ==
    LET q == Mul(Radicand(r), Radicand(s))
    IN  <<q[1], q[2], "sqrt">>

----------------------------------------------------------------------------
(* Sequences of doubles *)

RECURSIVE Sum(_)
Sum(s) == IF s = << >> THEN Num(0) ELSE Add(Head(s), Sum(Tail(s)))

Sq(s) == [k \in 1..Len(s) |-> Mul(s[k], s[k])]

Prod(s, t) == [k \in 1..Len(s) |-> Mul(s[k], t[k])]

\* s[a..b] with 1-based inclusive bounds; empty when a > b
Slice(s, a, b) == [k \in 1..(b - a + 1) |-> s[a + k - 1]]

NotNaN(a) == ~IsNaN(a)

HasNaN(s) == \E k \in 1..Len(s) : IsNaN(s[k])

Valid(s) == SelectSeq(s, NotNaN)

\* the positions where both members of the pair are present
PairMask(s, t) == {k \in 1..Len(s) : NotNaN(s[k]) /\ NotNaN(t[k])}

RECURSIVE Filter(_, _, _)
\* s restricted to the index set m, order kept, scanning from index k
Filter(s, m, k) ==
    IF k > Len(s) THEN << >>
    ELSE IF k \in m THEN <<s[k]>> \o Filter(s, m, k + 1)
    ELSE Filter(s, m, k + 1)

----------------------------------------------------------------------------
(* numpy, as the tests and the benchmark call it *)

\* np.mean(x): sum / n, which is 0/0 = NaN for an empty x
np_mean(s) == Div(Sum(s), Num(Len(s)))

Dev(s) == LET m == np_mean(s) IN [k \in 1..Len(s) |-> Sub(s[k], m)]

\* a mutation of np_cov: the population (n) denominator
np_cov_population(s, t, ddof) == Div(Sum(Prod(Dev(s), Dev(t))), Num(Len(s)))

\* np.cov(x, y, ddof=ddof)[0, 1]: the divisor is max(n - ddof, 0)
np_cov(s, t, ddof) ==
    Div(Sum(Prod(Dev(s), Dev(t))), Num(Max(Len(s) - ddof, 0)))

\* a mutation of np_var: the population (n) denominator
np_var_population(s, ddof) == Div(Sum(Sq(Dev(s))), Num(Len(s)))

\* np.var(x, ddof=ddof)
np_var(s, ddof) == Div(Sum(Sq(Dev(s))), Num(Max(Len(s) - ddof, 0)))

\* np.corrcoef(x, y)[0, 1]: cov / stddev_x / stddev_y (the clip to [-1, 1]
\* changes nothing in exact arithmetic)
np_corrcoef(s, t) ==
    DivRoot(np_cov(s, t, 1), MulRoot(Sqrt(np_var(s, 1)), Sqrt(np_var(t, 1))))

\* the rows of a matrix given by its columns
Rows(cols) ==
    [r \in 1..Len(cols[1]) |-> [c \in 1..Len(cols) |-> cols[c][r]]]

\* np.cov(m): the covariance matrix of the variables v[1], v[2], ...
np_cov_matrix(v) ==
    [a \in 1..Len(v) |-> [b \in 1..Len(v) |-> np_cov(v[a], v[b], 1)]]

\* np.corrcoef(m): c[a][b] / sqrt(c[a][a] * c[b][b]), the diagonal included
np_corrcoef_matrix(v) ==
    [a \in 1..Len(v) |-> [b \in 1..Len(v) |-> np_corrcoef(v[a], v[b])]]

\* a mutation of np_cumsum: the exclusive prefix sum
np_cumsum_exclusive(s) == [k \in 1..Len(s) |-> Sum(SubSeq(s, 1, k - 1))]

\* np.cumsum(x)
np_cumsum(s) == [k \in 1..Len(s) |-> Sum(SubSeq(s, 1, k))]

\* np.isinf
np_isinf(a) == a[2] = 0 /\ a[1] # 0

RECURSIVE InsertSorted(_, _)
\* v put into the ascending sequence s, after the elements equal to it
InsertSorted(v, s) ==
    IF s = << >> THEN <<v>>
    ELSE IF Lt(v, Head(s)) THEN <<v>> \o s
    ELSE <<Head(s)>> \o InsertSorted(v, Tail(s))

RECURSIVE np_sort(_)
\* np.sort(x) of a NaN-free x
np_sort(s) ==
    IF s = << >> THEN << >>
    ELSE InsertSorted(s[Len(s)], np_sort(SubSeq(s, 1, Len(s) - 1)))

\* a mutation of np_quantile: method 'higher', the order statistic above
np_quantile_higher(s, q) ==
    LET v  == np_sort(s)
        a  == q[1] * (Len(v) - 1)
        lo == a \div q[2]
    IN  IF a % q[2] = 0 THEN v[lo + 1] ELSE v[lo + 2]

\* a mutation of np_quantile: method 'lower', the order statistic below
np_quantile_lower(s, q) ==
    LET v  == np_sort(s)
        a  == q[1] * (Len(v) - 1)
    IN  v[(a \div q[2]) + 1]

\* np.quantile(x, q) of a non-empty NaN-free x, default method 'linear':
\* virtual index q * (n - 1), linear interpolation between its neighbours
np_quantile(s, q) ==
    LET v  == np_sort(s)
        a  == q[1] * (Len(v) - 1)
        lo == a \div q[2]
        r  == a % q[2]
    IN  IF r = 0 THEN v[lo + 1]
        ELSE Add(v[lo + 1], Mul(Norm(r, q[2]), Sub(v[lo + 2], v[lo + 1])))

\* np.nanmean(x)
np_nanmean(s) == np_mean(Valid(s))

\* a mutation of np_nanstd: the population denominator over the valid count
np_nanstd_population(s, ddof) ==
    Sqrt(Div(Sum(Sq(Dev(Valid(s)))), Num(Len(Valid(s)))))

\* np.nanstd(x, ddof=ddof): NaN when the valid count minus ddof is <= 0
np_nanstd(s, ddof) ==
    LET v == Valid(s)
    IN  IF Len(v) - ddof <= 0 THEN RootNaN
        ELSE Sqrt(Div(Sum(Sq(Dev(v))), Num(Len(v) - ddof)))

----------------------------------------------------------------------------
(* pandas rolling, as the tests and the benchmark call it *)

\* the causal window ending at position k (1-based), clipped at the start
Win(s, k, w) == Slice(s, Max(1, k - w + 1), k)

\* a mutation of pd_rolling_mean: min_periods ignored (always 1)
pd_rolling_mean_min1(s, w, minp) ==
    [k \in 1..Len(s) |->
        LET v == Valid(Win(s, k, w))
        IN  IF Len(v) > 0 THEN Div(Sum(v), Num(Len(v))) ELSE NaN]

\* Series.rolling(w, min_periods=minp).mean()
pd_rolling_mean(s, w, minp) ==
    [k \in 1..Len(s) |->
        LET v == Valid(Win(s, k, w))
        IN  IF Len(v) >= minp /\ Len(v) > 0
            THEN Div(Sum(v), Num(Len(v))) ELSE NaN]

\* Series.rolling(w, min_periods=minp).var(ddof=ddof)
pd_rolling_var(s, w, minp, ddof) ==
    [k \in 1..Len(s) |->
        LET v == Valid(Win(s, k, w))
        IN  IF Len(v) >= minp /\ Len(v) > ddof
            THEN Div(Sum(Sq(Dev(v))), Num(Len(v) - ddof)) ELSE NaN]

\* Series.rolling(w, min_periods=minp).std(ddof=ddof)
pd_rolling_std(s, w, minp, ddof) ==
    LET v == pd_rolling_var(s, w, minp, ddof)
    IN  [k \in 1..Len(s) |-> Sqrt(v[k])]

\* a mutation of pd_count_x_y: the smaller of the two sequences' own counts
pd_count_own(s, t, k, w) ==
    LET cs == Cardinality({j \in Max(1, k - w + 1)..k : NotNaN(s[j])})
        ct == Cardinality({j \in Max(1, k - w + 1)..k : NotNaN(t[j])})
    IN  IF cs <= ct THEN cs ELSE ct

\* roll_sum(notna(x + y), min_periods=0): the pairs present in the window
pd_count_x_y(s, t, k, w) ==
    Cardinality({j \in Max(1, k - w + 1)..k : NotNaN(s[j]) /\ NotNaN(t[j])})

\* the numerator pandas uses for rolling cov and corr at position k
pd_cov_at(s, t, k, w, minp, ddof) ==
    LET mxy == pd_rolling_mean(Prod(s, t), w, minp)[k]
        mx  == pd_rolling_mean(s, w, minp)[k]
        my  == pd_rolling_mean(t, w, minp)[k]
        c   == pd_count_x_y(s, t, k, w)
    IN  Mul(Sub(mxy, Mul(mx, my)), Div(Num(c), Num(c - ddof)))

\* a mutation of pd_rolling_cov: min_periods = 2 instead of the window size
pd_rolling_cov_min2(s, t, w, ddof) ==
    [k \in 1..Len(s) |->
        LET m == {j \in Max(1, k - w + 1)..k : NotNaN(s[j]) /\ NotNaN(t[j])}
        IN  IF Cardinality(m) < 2 THEN NaN
            ELSE np_cov(Filter(s, m, 1), Filter(t, m, 1), ddof)]

\* s_x.rolling(w).cov(s_y, ddof=ddof): min_periods defaults to the window
pd_rolling_cov(s, t, w, ddof) ==
    [k \in 1..Len(s) |-> pd_cov_at(s, t, k, w, w, ddof)]

\* s_x.rolling(w).corr(s_y): numerator / sqrt(var_x * var_y), ddof = 1
pd_rolling_corr(s, t, w) ==
    [k \in 1..Len(s) |->
        DivRoot(pd_cov_at(s, t, k, w, w, 1),
                MulRoot(Sqrt(pd_rolling_var(s, w, w, 1)[k]),
                        Sqrt(pd_rolling_var(t, w, w, 1)[k])))]

----------------------------------------------------------------------------
(* The Python reference implementations of the repository *)

\* what a Python call gives back: a value, or the exception it raised
Ok(v) == [status |-> "ok", value |-> v]

Raised(e) == [status |-> e, value |-> << >>]

\* a mutation of py_cov: entry [0, 0] of the matrix, the variance of x
py_cov_var_x(s, t) == np_cov(s, s, 1)

py_cov(s, t) == np_cov(s, t, 1)

\* a mutation of py_corr: a zero-variance result is filled with 0
py_corr_zero_filled(s, t) ==
    IF IsRootNaN(np_corrcoef(s, t)) THEN Sqrt(Num(0)) ELSE np_corrcoef(s, t)

py_corr(s, t) == np_corrcoef(s, t)

\* py_diff(x, periods) for periods >= 1, as every call of it passes:
\* out[:periods] = nan; out[periods:] = x[periods:] - x[:-periods]
py_diff(s, p) ==
    [k \in 1..Len(s) |-> IF k <= p THEN NaN ELSE Sub(s[k], s[k - p])]

\* a mutation of py_pct_change: the infinities are left in the output
py_pct_change_keep_inf(s, p) ==
    [k \in 1..Len(s) |->
        IF k <= p THEN NaN ELSE Sub(Div(s[k], s[k - p]), Num(1))]

\* py_pct_change(x, periods) for periods >= 1: x[periods:] / x[:-periods] - 1
\* and then out[np.isinf(out)] = nan
py_pct_change(s, p) ==
    [k \in 1..Len(s) |->
        IF k <= p THEN NaN
        ELSE LET v == Sub(Div(s[k], s[k - p]), Num(1))
             IN  IF np_isinf(v) THEN NaN ELSE v]

\* a mutation of py_ecdf: ranks counted from 0
py_ecdf_zero_based(s) ==
    [values |-> np_sort(s),
     probs  |-> [k \in 1..Len(s) |-> Div(Num(k - 1), Num(Len(s)))]]

\* py_ecdf(x): v = np.sort(x); y = np.arange(1, n + 1) / n
py_ecdf(s) ==
    [values |-> np_sort(s),
     probs  |-> [k \in 1..Len(s) |-> Div(Num(k), Num(Len(s)))]]

\* test_outliers_iqr_zscore, mask_py_iqr: q1, q3 by np.quantile,
\* low = q1 - k * iqr, high = q3 + k * iqr, mask = (x < low) | (x > high)
py_iqr_mask(s, k) ==
    LET q1   == np_quantile(s, <<1, 4>>)
        q3   == np_quantile(s, <<3, 4>>)
        iqr  == Sub(q3, q1)
        low  == Sub(q1, Mul(k, iqr))
        high == Add(q3, Mul(k, iqr))
    IN  [j \in 1..Len(s) |-> Lt(s[j], low) \/ Lt(high, s[j])]

\* a mutation of scipy_rankdata: tied values get their lowest rank
scipy_rankdata_min(c) ==
    [j \in 1..Len(c) |->
        Num(Cardinality({k \in 1..Len(c) : Lt(c[k], c[j])}) + 1)]

\* the ranking inside scipy.stats.mannwhitneyu: rank 1 for the smallest of
\* the combined sample, tied values share the average of their ranks
scipy_rankdata(c) ==
    [j \in 1..Len(c) |->
        LET less == Cardinality({k \in 1..Len(c) : Lt(c[k], c[j])})
            same == Cardinality({k \in 1..Len(c) : c[k] = c[j]})
        IN  Norm(2 * less + same + 1, 2)]

\* _impl_scipy, mann_whitney_u_np: sps.mannwhitneyu(x, y).statistic, the U
\* of the first sample, R1 - n1 * (n1 + 1) / 2
impl_scipy_mannwhitneyu(s, t) ==
    LET n1    == Len(s)
        ranks == scipy_rankdata(s \o t)
    IN  Sub(Sum(SubSeq(ranks, 1, n1)), Norm(n1 * (n1 + 1), 2))

\* a mutation of py_rolling_cov: the windows start one element late
py_rolling_cov_shifted(s, t, w) ==
    IF Len(s) # Len(t) THEN Raised("AssertionError")
    ELSE IF w <= 0 \/ w > Len(s) THEN Ok(<< >>)
    ELSE Ok([k \in 1..(Len(s) - w) |->
                py_cov(Slice(s, k + 1, k + w), Slice(t, k + 1, k + w))])

\* a mutation of py_rolling_cov: an invalid window is rejected
py_rolling_cov_strict(s, t, w) ==
    IF Len(s) # Len(t) THEN Raised("AssertionError")
    ELSE IF w <= 0 \/ w > Len(s) THEN Raised("ValueError")
    ELSE Ok([k \in 1..(Len(s) - w + 1) |->
                py_cov(Slice(s, k, k + w - 1), Slice(t, k, k + w - 1))])

\* py_rolling_cov(x, y, window): one value per full window, no padding
py_rolling_cov(s, t, w) ==
    IF Len(s) # Len(t) THEN Raised("AssertionError")
    ELSE IF w <= 0 \/ w > Len(s) THEN Ok(<< >>)
    ELSE Ok([k \in 1..(Len(s) - w + 1) |->
                py_cov(Slice(s, k, k + w - 1), Slice(t, k, k + w - 1))])

py_rolling_corr(s, t, w) ==
    IF Len(s) # Len(t) THEN Raised("AssertionError")
    ELSE IF w <= 0 \/ w > Len(s) THEN Ok(<< >>)
    ELSE Ok([k \in 1..(Len(s) - w + 1) |->
                py_corr(Slice(s, k, k + w - 1), Slice(t, k, k + w - 1))])

\* a mutation of cov_nan_ref: the mask looks at x only
cov_nan_ref_mask_x(s, t) ==
    LET m  == {k \in 1..Len(s) : NotNaN(s[k])}
        sf == Filter(s, m, 1)
        tf == Filter(t, m, 1)
    IN  IF Len(sf) >= 2 THEN np_cov(sf, tf, 1) ELSE NaN

\* test_cov_corr_nan, cov_ref: np.cov over the pairwise-valid subset
cov_nan_ref(s, t) ==
    LET m  == PairMask(s, t)
        sf == Filter(s, m, 1)
        tf == Filter(t, m, 1)
    IN  IF Len(sf) >= 2 THEN np_cov(sf, tf, 1) ELSE NaN

\* test_cov_corr_nan, corr_ref
corr_nan_ref(s, t) ==
    LET m  == PairMask(s, t)
        sf == Filter(s, m, 1)
        tf == Filter(t, m, 1)
    IN  IF Len(sf) >= 2 THEN np_corrcoef(sf, tf) ELSE RootNaN

\* test_rolling_cov_corr_nan, cov_ref and corr_ref
rolling_cov_nan_ref(s, t, w) == pd_rolling_cov(s, t, w, 1)

rolling_corr_nan_ref(s, t, w) == pd_rolling_corr(s, t, w)

\* a mutation of rolling_mean_nan_ref: min_periods left at its default
rolling_mean_nan_ref_default(s, w) == pd_rolling_mean(s, w, w)

\* test_nan_behavior, the reference of rolling_mean_nan_np
rolling_mean_nan_ref(s, w) == pd_rolling_mean(s, w, 1)

\* test_nan_behavior, pandas_rolling_zscore: (s - mean) / std, min_periods=1
pandas_rolling_zscore(s, w) ==
    LET m  == pd_rolling_mean(s, w, 1)
        sd == pd_rolling_std(s, w, 1, 1)
    IN  [k \in 1..Len(s) |-> DivRoot(Sub(s[k], m[k]), sd[k])]

\* _impl_pandas: the benchmark's baselines of the plain rolling functions
impl_pandas_rolling_mean(s, w) == pd_rolling_mean(s, w, w)

\* a mutation of impl_pandas_rolling_std: the population (ddof=0) deviation
impl_pandas_rolling_std_population(s, w) == pd_rolling_std(s, w, w, 0)

impl_pandas_rolling_std(s, w) == pd_rolling_std(s, w, w, 1)

impl_pandas_rolling_var(s, w) == pd_rolling_var(s, w, w, 1)

\* a mutation of impl_numpy_cov: the population covariance
impl_numpy_cov_population(s, t) == np_cov(s, t, 0)

\* _impl_numpy, cov_np and cov_nan_np alike: np.cov(x, y)[0, 1]
impl_numpy_cov(s, t) == np_cov(s, t, 1)

\* _impl_numpy, corr_np and corr_nan_np alike: np.corrcoef(x, y)[0, 1]
impl_numpy_corr(s, t) == np_corrcoef(s, t)

\* a numpy array: its number of dimensions and its value
Array0(v) == [ndim |-> 0, value |-> v]

Array2(m) == [ndim |-> 2, value |-> m]

\* a mutation of impl_numpy_cov_matrix: rowvar left at its default, so the
\* rows are taken as the variables
impl_numpy_cov_matrix_rowvar(cols, single_row_guard) ==
    Array2(np_cov_matrix(Rows(cols)))

\* _impl_numpy: np.cov(X, rowvar=False), the columns are the variables.
\* What a matrix of one row gives depends on the numpy installed: the
\* releases that transpose X only "if not rowvar and X.shape[0] != 1" take
\* the single row as one variable and return its variance as a 0-d array,
\* the others return the p x p matrix (all NaN, the divisor being 0)
impl_numpy_cov_matrix(cols, single_row_guard) ==
    IF single_row_guard /\ Len(cols[1]) = 1
    THEN Array0(np_var(Rows(cols)[1], 1))
    ELSE Array2(np_cov_matrix(cols))

\* _impl_numpy: np.corrcoef(X, rowvar=False); on a 0-d covariance c it
\* returns c / c
impl_numpy_corr_matrix(cols, single_row_guard) ==
    IF single_row_guard /\ Len(cols[1]) = 1
    THEN LET c == np_var(Rows(cols)[1], 1) IN Array0(Div(c, c))
    ELSE Array2(np_corrcoef_matrix(cols))

----------------------------------------------------------------------------
(* The engine: sliding-window cores (design sections 4.1, 4.3, 4.4) *)

\* the clamp to zero of a variance that came out negative
Clamp0(v) == IF IsFinite(v) /\ v[1] < 0 THEN Num(0) ELSE v

\* (sumSq - sum^2 / n) / (n - 1), clamped
VarOf(sumSq, sum, n) ==
    Clamp0(Div(Sub(sumSq, Div(Mul(sum, sum), Num(n))), Num(n - 1)))

\* (sumXY - sumX * sumY / n) / (n - 1)
CovOf(sumXY, sumX, sumY, n) ==
    Div(Sub(sumXY, Div(Mul(sumX, sumY), Num(n))), Num(n - 1))

\* corr = cov / (std_x * std_y), NaN if either std is 0
CorrOf(cov, varX, varY) ==
    IF IsNaN(cov) \/ IsNaN(varX) \/ IsNaN(varY) THEN RootNaN
    ELSE IF varX[1] = 0 \/ varY[1] = 0 THEN RootNaN
    ELSE DivRoot(cov, MulRoot(Sqrt(varX), Sqrt(varY)))

Zero == Num(0)

AccInit ==
    [count |-> 0, sum |-> Zero, sumSq |-> Zero,
     sumY |-> Zero, sumYSq |-> Zero, sumXY |-> Zero,
     mean |-> Zero, M2 |-> Zero]

\* a mutation of Leaving: the element before the one that leaves
Leaving_early(s, k, w) == IF k > w + 1 THEN s[k - w - 1] ELSE Zero

\* the element leaving the window when s[k] enters it, if any
Leaving(s, k, w) == IF k > w THEN s[k - w] ELSE Zero

\* plain core: add the incoming element, subtract the one leaving
RollAcc(a, s, k, w) ==
    [a EXCEPT
        !.count = IF k > w THEN w ELSE k,
        !.sum   = Sub(Add(a.sum, s[k]), Leaving(s, k, w)),
        !.sumSq = Sub(Add(a.sumSq, Mul(s[k], s[k])),
                      Mul(Leaving(s, k, w), Leaving(s, k, w)))]

\* NaN-aware core: only non-NaN elements enter and leave the sums
RollNanAcc(a, s, k, w) ==
    LET inV  == IF NotNaN(s[k]) THEN s[k] ELSE Zero
        inC  == IF NotNaN(s[k]) THEN 1 ELSE 0
        gone == k > w /\ NotNaN(s[k - w])
        outV == IF gone THEN s[k - w] ELSE Zero
        outC == IF gone THEN 1 ELSE 0
    IN  [a EXCEPT
            !.count = a.count + inC - outC,
            !.sum   = Sub(Add(a.sum, inV), outV),
            !.sumSq = Sub(Add(a.sumSq, Mul(inV, inV)), Mul(outV, outV))]

\* pairwise core: running sums of x, y, xy, x^2, y^2
PairAcc(a, s, t, k, w) ==
    LET ox == Leaving(s, k, w)
        oy == Leaving(t, k, w)
    IN  [a EXCEPT
            !.count  = IF k > w THEN w ELSE k,
            !.sum    = Sub(Add(a.sum, s[k]), ox),
            !.sumY   = Sub(Add(a.sumY, t[k]), oy),
            !.sumSq  = Sub(Add(a.sumSq, Mul(s[k], s[k])), Mul(ox, ox)),
            !.sumYSq = Sub(Add(a.sumYSq, Mul(t[k], t[k])), Mul(oy, oy)),
            !.sumXY  = Sub(Add(a.sumXY, Mul(s[k], t[k])), Mul(ox, oy))]

\* NaN-aware pairwise core: a pair contributes only when both members are
\* valid; count is the number of valid pairs in the window
PairNanAcc(a, s, t, k, w) ==
    LET ok(j) == NotNaN(s[j]) /\ NotNaN(t[j])
        ix == IF ok(k) THEN s[k] ELSE Zero
        iy == IF ok(k) THEN t[k] ELSE Zero
        ic == IF ok(k) THEN 1 ELSE 0
        gone == k > w /\ ok(k - w)
        ox == IF gone THEN s[k - w] ELSE Zero
        oy == IF gone THEN t[k - w] ELSE Zero
        oc == IF gone THEN 1 ELSE 0
    IN  [a EXCEPT
            !.count  = a.count + ic - oc,
            !.sum    = Sub(Add(a.sum, ix), ox),
            !.sumY   = Sub(Add(a.sumY, iy), oy),
            !.sumSq  = Sub(Add(a.sumSq, Mul(ix, ix)), Mul(ox, ox)),
            !.sumYSq = Sub(Add(a.sumYSq, Mul(iy, iy)), Mul(oy, oy)),
            !.sumXY  = Sub(Add(a.sumXY, Mul(ix, iy)), Mul(ox, oy))]

\* Welford insertion: count += 1; mean += (v - mean) / count;
\* M2 += (v - old_mean) * (v - new_mean)
WelfordAcc(a, v) ==
    LET c  == a.count + 1
        m1 == Add(a.mean, Div(Sub(v, a.mean), Num(c)))
    IN  [a EXCEPT
            !.count = c,
            !.mean  = m1,
            !.M2    = Add(a.M2, Mul(Sub(v, a.mean), Sub(v, m1)))]

\* Welford finalization: variance = M2 / (count - 1) if count >= 2, else NaN
WelfordVar(a) == IF a.count >= 2 THEN Div(a.M2, Num(a.count - 1)) ELSE NaN

----------------------------------------------------------------------------
(* The engine: what each function emits *)

\* rolling_mean_np / rolling_var_np / rolling_std_np / rolling_zscore_np /
\* rolling_mean_std_np at position k: NaN until the window is full
RollEmit(a, s, k, w) ==
    IF k >= w
    THEN LET m == Div(a.sum, Num(w))
             v == VarOf(a.sumSq, a.sum, w)
         IN  [mean |-> m, var |-> v, std |-> Sqrt(v),
              zscore |-> DivRoot(Sub(s[k], m), Sqrt(v))]
    ELSE [mean |-> NaN, var |-> NaN, std |-> RootNaN, zscore |-> RootNaN]

\* rolling_mean_nan_np / rolling_std_nan_np / rolling_zscore_nan_np at
\* position k: min_periods = 1 for the mean, 2 for std and zscore
RollNanEmit(a, s, k) ==
    LET m == IF a.count >= 1 THEN Div(a.sum, Num(a.count)) ELSE NaN
        v == IF a.count >= 2 THEN VarOf(a.sumSq, a.sum, a.count) ELSE NaN
    IN  [mean |-> m, std |-> Sqrt(v),
         zscore |-> IF a.count >= 2 THEN DivRoot(Sub(s[k], m), Sqrt(v))
                    ELSE RootNaN]

\* rolling_cov_np / rolling_corr_np for the full window ending at k
PairEmit(a, w) ==
    LET c == CovOf(a.sumXY, a.sum, a.sumY, w)
    IN  [cov |-> c,
         corr |-> CorrOf(c, VarOf(a.sumSq, a.sum, w),
                            VarOf(a.sumYSq, a.sumY, w))]

\* rolling_cov_nan_np / rolling_corr_nan_np at position k: a value only when
\* the window is full and every one of its w pairs is valid, and w >= 2
PairNanEmit(a, k, w) ==
    IF k >= w /\ a.count = w /\ a.count >= 2
    THEN LET c == CovOf(a.sumXY, a.sum, a.sumY, a.count)
         IN  [cov |-> c,
              corr |-> CorrOf(c, VarOf(a.sumSq, a.sum, a.count),
                                 VarOf(a.sumYSq, a.sumY, a.count))]
    ELSE [cov |-> NaN, corr |-> RootNaN]

\* mean_np / var_np / std_np: the mean and the unbiased variance of the whole
\* sequence
mean_np(s) == Div(Sum(s), Num(Len(s)))

var_np(s) == VarOf(Sum(Sq(s)), Sum(s), Len(s))

std_np(s) == Sqrt(var_np(s))

\* mean_nan_np / var_nan_np / std_nan_np: the statistic of the valid subset
mean_nan_np(s) ==
    LET v == Valid(s)
    IN  IF Len(v) < 1 THEN NaN ELSE Div(Sum(v), Num(Len(v)))

var_nan_np(s) ==
    LET v == Valid(s)
    IN  IF Len(v) < 2 THEN NaN
        ELSE Div(Sub(Sum(Sq(v)), Div(Mul(Sum(v), Sum(v)), Num(Len(v)))),
                 Num(Len(v) - 1))

std_nan_np(s) == Sqrt(var_nan_np(s))

\* cov_nan_np / corr_nan_np: over the indices valid in both sequences
cov_nan_np(s, t) ==
    LET m  == PairMask(s, t)
        sf == Filter(s, m, 1)
        tf == Filter(t, m, 1)
        n  == Cardinality(m)
    IN  IF n < 2 THEN NaN
        ELSE CovOf(Sum(Prod(sf, tf)), Sum(sf), Sum(tf), n)

corr_nan_np(s, t) ==
    LET m  == PairMask(s, t)
        sf == Filter(s, m, 1)
        tf == Filter(t, m, 1)
        n  == Cardinality(m)
    IN  IF n < 2 THEN RootNaN
        ELSE CorrOf(cov_nan_np(s, t), VarOf(Sum(Sq(sf)), Sum(sf), n),
                    VarOf(Sum(Sq(tf)), Sum(tf), n))

\* cov_np: sum((x - mean_x)(y - mean_y)) / (n - 1) from the sums
cov_np(s, t) == CovOf(Sum(Prod(s, t)), Sum(s), Sum(t), Len(s))

\* corr_np: cov / (std_x * std_y), NaN if either std is 0
corr_np(s, t) ==
    CorrOf(cov_np(s, t), VarOf(Sum(Sq(s)), Sum(s), Len(s)),
           VarOf(Sum(Sq(t)), Sum(t), Len(t)))

\* the correlation 1
One == Sqrt(Num(1))

\* cov_matrix_np: the p x p matrix of cov over the column pairs
cov_matrix_np(cols) ==
    [a \in 1..Len(cols) |->
        [b \in 1..Len(cols) |-> cov_np(cols[a], cols[b])]]

\* corr_matrix_np: corr over the column pairs, the diagonal set to 1 and
\* not recomputed
corr_matrix_np(cols) ==
    [a \in 1..Len(cols) |->
        [b \in 1..Len(cols) |->
            IF a = b THEN One ELSE corr_np(cols[a], cols[b])]]

\* diff_np: out[i] = x[i] - x[i - periods] for i >= periods, else NaN
diff_np(s, p) ==
    [k \in 1..Len(s) |-> IF k - p >= 1 THEN Sub(s[k], s[k - p]) ELSE NaN]

\* pct_change_np: out[i] = x[i] / x[i - periods] - 1 for i >= periods, else
\* NaN; a +-infinity result is converted to NaN
pct_change_np(s, p) ==
    [k \in 1..Len(s) |->
        IF k - p >= 1
        THEN LET r == Sub(Div(s[k], s[k - p]), Num(1))
             IN  IF IsFinite(r) THEN r ELSE NaN
        ELSE NaN]

RECURSIVE cumsum_np(_)
\* cumsum_np: the prefix sums, each from the one before
cumsum_np(s) ==
    IF s = << >> THEN << >>
    ELSE LET front == cumsum_np(SubSeq(s, 1, Len(s) - 1))
             last  == IF front = << >> THEN Zero ELSE front[Len(front)]
         IN  Append(front, Add(last, s[Len(s)]))

\* the position of a smallest element of a non-empty s (the first of them)
ArgMin(s) ==
    CHOOSE a \in 1..Len(s) :
        /\ \A b \in 1..Len(s) : ~Lt(s[b], s[a])
        /\ \A b \in 1..(a - 1) : Lt(s[a], s[b])

RECURSIVE SortAsc(_)
\* the engine's ascending sort: the smallest element first, then the rest
SortAsc(s) ==
    IF s = << >> THEN << >>
    ELSE LET a == ArgMin(s)
             rest == SubSeq(s, 1, a - 1) \o SubSeq(s, a + 1, Len(s))
         IN  <<s[a]>> \o SortAsc(rest)

\* ecdf_np: the sorted values, each with the cumulative probability
\* rank / n for the 1-indexed rank
ecdf_np(s) ==
    LET v == SortAsc(s)
    IN  [values |-> v,
         probs  |-> [k \in 1..Len(v) |-> Div(Num(k), Num(Len(v)))]]

\* percentile by linear interpolation between order statistics: for the
\* position q * (n - 1) of the sorted v, between its floor and ceil ranks
percentile_sorted(v, q) ==
    LET pos == Mul(q, Num(Len(v) - 1))
        f   == pos[1] \div pos[2]
        c   == IF pos[1] % pos[2] = 0 THEN f ELSE f + 1
    IN  Add(v[f + 1], Mul(Sub(pos, Num(f)), Sub(v[c + 1], v[f + 1])))

\* quantile_bins_np: the n_bins + 1 quantile edges e[0..n_bins]; an element
\* goes to the first bin j whose upper edge e[j+1] it does not exceed, so a
\* value on an edge goes to the lower bin
quantile_bins_np(s, nb) ==
    LET v    == SortAsc(s)
        e(j) == percentile_sorted(v, Norm(j, nb))
    IN  [k \in 1..Len(s) |->
            CHOOSE j \in 0..(nb - 1) :
                /\ ~Lt(e(j + 1), s[k])
                /\ \A h \in 0..(j - 1) : Lt(e(h + 1), s[k])]

\* iqr_outliers_np: flag x < Q1 - k * IQR or x > Q3 + k * IQR, with
\* IQR = P75 - P25
iqr_outliers_np(s, k) ==
    LET v   == SortAsc(s)
        p25 == percentile_sorted(v, <<1, 4>>)
        p75 == percentile_sorted(v, <<3, 4>>)
        w   == Mul(k, Sub(p75, p25))
    IN  [j \in 1..Len(s) |->
            Lt(s[j], Sub(p25, w)) \/ Lt(Add(p75, w), s[j])]

\* the averaged mid-rank of the value a in the sorted combined sample v: the
\* mean of the first and the last position it occupies
MidRank(v, a) ==
    LET at    == {k \in 1..Len(v) : v[k] = a}
        first == CHOOSE k \in at : \A m \in at : k <= m
        last  == CHOOSE k \in at : \A m \in at : m <= k
    IN  Norm(first + last, 2)

\* mann_whitney_u_np: rank the combined observations, ties by averaged
\* mid-ranks, and U from the rank sum: of the two statistics the rank sums
\* give, U1 = R1 - n1(n1+1)/2 and U2 = n1*n2 - U1, the larger, which is the
\* one that is n1*n2 for fully separated samples whichever of them lies
\* above (design section 8)
mann_whitney_u_np(s, t) ==
    LET n1 == Len(s)
        v  == SortAsc(s \o t)
        r1 == Sum([j \in 1..n1 |-> MidRank(v, s[j])])
        u1 == Sub(r1, Norm(n1 * (n1 + 1), 2))
        u2 == Sub(Num(n1 * Len(t)), u1)
    IN  IF Lt(u1, u2) THEN u2 ELSE u1

----------------------------------------------------------------------------
(* Inputs *)

\* longest input sequence explored
MaxLen == 3

\* the alphabet of a single sequence that may hold missing values
NanVals == {NaN, Num(0), Num(1), Num(2)}

\* the alphabet of the second sequence of a pair with missing values
NanValsY == {NaN, Num(0), Num(1)}

\* NaN-free alphabets
Vals == {Num(0), Num(1), Num(2)}

WelfordVals == {Num(0), Num(1), Num(2), Num(5)}

BitVals == {Num(0), Num(1)}

\* the alphabet of the plain pairwise and matrix-column runs that are given
\* missing values
NanBits == {NaN, Num(1)}

\* the example of the design's section 8
ExampleX == <<Num(1), NaN, Num(3), Num(4)>>

ExampleY == <<Num(2), Num(2), NaN, Num(5)>>

\* the example of test_diff_pct_cum
DiffExample == <<Num(1), Num(2), Num(4), Num(8), Num(16)>>

\* n evenly spread distinct values, in descending order
Ramp(n) == [k \in 1..n |-> Num(n - k)]

\* the example of test_outliers_iqr_zscore
IqrExample ==
    <<Num(10), Num(12), Num(11), Num(13), Num(9), Num(8), Num(50), Num(-20),
      Num(10), Num(11)>>

\* the multipliers k explored; 3/2 is the one the test passes
IqrK == {Num(0), <<1, 2>>, <<3, 2>>}

WindowFns == {"rolling", "rolling_nan", "rolling_cov", "rolling_cov_nan",
              "rolling_axis0"}

PairFns == {"rolling_cov", "rolling_cov_nan", "cov_nan", "rolling_axis0"}

SteppedFns == {"rolling", "rolling_nan", "rolling_cov", "rolling_cov_nan",
               "welford"}

\* the argument checks of design section 7
ArgsOk ==
    /\ fn \in PairFns => Len(x) = Len(y)
    /\ fn \in WindowFns => window >= 1 /\ window <= Len(x)

NoOut == [mean |-> << >>, var |-> << >>, std |-> << >>, zscore |-> << >>,
          cov |-> << >>, corr |-> << >>]

NoRef == [cov |-> Raised("pending"), corr |-> Raised("pending")]

\* no benchmark is running
DriverIdle ==
    /\ args = << >>
    /\ env = << >>
    /\ cases = << >>
    /\ skip = {}
    /\ case_i = 0
    /\ rows = << >>
    /\ fieldnames = << >>
    /\ dpc = "idle"

StartWith(f, s, t, w, p) ==
    /\ DriverIdle
    /\ fn = f
    /\ x = s
    /\ y = t
    /\ window = w
    /\ param = p
    /\ i = IF f = "rolling_axis0" THEN <<0, 0>> ELSE 0
    /\ acc = IF f = "rolling_axis0" THEN <<AccInit, AccInit>> ELSE AccInit
    /\ out = IF f = "rolling_axis0" THEN <<NoOut, NoOut>> ELSE NoOut
    /\ ref = NoRef
    /\ pc = IF f = "rolling_cov" THEN "call" ELSE "enter"

Start(f, s, t, w) == StartWith(f, s, t, w, 0)

Init ==
    \/ \E n \in 1..MaxLen : \E s \in [1..n -> NanVals], w \in 0..(n + 1) :
          \E f \in {"rolling", "rolling_nan"} : Start(f, s, << >>, w)
    \/ \E n \in 1..MaxLen : \E s \in [1..n -> Vals], t \in [1..n -> Vals] :
          \E w \in 0..(n + 1) : Start("rolling_cov", s, t, w)
    \/ \E n \in 1..MaxLen, m \in 1..MaxLen :
          \E s \in [1..n -> Vals], t \in [1..m -> Vals] :
             n # m /\ Start("rolling_cov", s, t, 1)
    \/ \E n \in 1..MaxLen :
          \E s \in [1..n -> NanValsY], t \in [1..n -> NanValsY] :
             \E w \in 0..(n + 1) : Start("rolling_cov_nan", s, t, w)
    \/ \E n \in 1..MaxLen :
          \E s \in [1..n -> BitVals], t \in [1..n -> BitVals] :
             \E w \in 0..(n + 1) : Start("rolling_axis0", s, t, w)
    \/ \E n \in 1..MaxLen :
          \E s \in [1..n -> NanBits], t \in [1..n -> NanBits] :
             \E w \in 0..(n + 1), f \in {"rolling_cov", "rolling_axis0"} :
                Start(f, s, t, w)
    \/ \E n \in 0..MaxLen, m \in 0..MaxLen :
          \E s \in [1..n -> NanVals], t \in [1..m -> NanValsY] :
             (n = m \/ n = m + 1) /\ Start("cov_nan", s, t, 0)
    \/ Start("cov_nan", ExampleX, ExampleY, 0)
    \/ \E n \in 1..MaxLen : \E s \in [1..n -> Vals], t \in [1..n -> Vals] :
          \E f \in {"cov", "cov_matrix"} : Start(f, s, t, 0)
    \/ \E n \in 1..MaxLen : \E s \in [1..n -> NanVals], p \in 1..n :
          StartWith("diff", s, << >>, 0, p)
    \/ StartWith("diff", DiffExample, << >>, 0, 1)
    \/ \E n \in 1..MaxLen : \E s \in [1..n -> Vals] :
          Start("ecdf", s, << >>, 0)
    \/ \E n \in 1..MaxLen : \E s \in [1..n -> Vals], nb \in 1..MaxLen :
          StartWith("quantile_bins", s, << >>, 0, nb)
    \/ \E n \in 1..MaxLen : \E s \in [1..n -> WelfordVals], k \in IqrK :
          StartWith("iqr_outliers", s, << >>, 0, k)
    \/ StartWith("iqr_outliers", IqrExample, << >>, 0, <<3, 2>>)
    \/ \E n \in 1..MaxLen, m \in 1..MaxLen :
          \E s \in [1..n -> Vals], t \in [1..m -> Vals] :
             Start("mann_whitney_u", s, t, 0)
    \/ \E nb \in 1..MaxLen, d \in {0, 1} :
          StartWith("quantile_bins", Ramp(10 * nb + d), << >>, 0, nb)
    \/ \E n \in 0..MaxLen : \E s \in [1..n -> NanVals] :
          Start("nan_stats", s, << >>, 0)
    \/ \E n \in 0..MaxLen : \E s \in [1..n -> WelfordVals] :
          Start("welford", s, << >>, 0)

----------------------------------------------------------------------------
(* Operations *)

\* test_cov_corr_rolling computes the Python references before it calls the
\* engine with the same arguments
PyReference ==
    /\ pc = "call"
    /\ ref' = [cov  |-> py_rolling_cov(x, y, window),
               corr |-> py_rolling_corr(x, y, window)]
    /\ pc' = "enter"
    /\ UNCHANGED <<driver, fn, x, y, window, param, i, acc, out>>

\* an invalid argument is surfaced to the caller
Reject ==
    /\ pc = "enter"
    /\ ~ArgsOk
    /\ pc' = "error"
    /\ UNCHANGED <<driver, fn, x, y, window, param, i, acc, out, ref>>

Running == pc \in {"enter", "run"} /\ ArgsOk

RollingStep ==
    /\ fn = "rolling"
    /\ Running
    /\ i < Len(x)
    /\ LET a == RollAcc(acc, x, i + 1, window)
           e == RollEmit(a, x, i + 1, window)
       IN  /\ acc' = a
           /\ out' = [out EXCEPT !.mean = Append(@, e.mean),
                                 !.var = Append(@, e.var),
                                 !.std = Append(@, e.std),
                                 !.zscore = Append(@, e.zscore)]
    /\ i' = i + 1
    /\ pc' = "run"
    /\ UNCHANGED <<driver, fn, x, y, window, param, ref>>

RollingNanStep ==
    /\ fn = "rolling_nan"
    /\ Running
    /\ i < Len(x)
    /\ LET a == RollNanAcc(acc, x, i + 1, window)
           e == RollNanEmit(a, x, i + 1)
       IN  /\ acc' = a
           /\ out' = [out EXCEPT !.mean = Append(@, e.mean),
                                 !.std = Append(@, e.std),
                                 !.zscore = Append(@, e.zscore)]
    /\ i' = i + 1
    /\ pc' = "run"
    /\ UNCHANGED <<driver, fn, x, y, window, param, ref>>

\* rolling_cov_np / rolling_corr_np: a value is appended only once the
\* window is full, so the output has n - w + 1 entries
RollingCovStep ==
    /\ fn = "rolling_cov"
    /\ Running
    /\ i < Len(x)
    /\ LET a == PairAcc(acc, x, y, i + 1, window)
           e == PairEmit(a, window)
       IN  /\ acc' = a
           /\ out' = IF i + 1 >= window
                     THEN [out EXCEPT !.cov = Append(@, e.cov),
                                      !.corr = Append(@, e.corr)]
                     ELSE out
    /\ i' = i + 1
    /\ pc' = "run"
    /\ UNCHANGED <<driver, fn, x, y, window, param, ref>>

RollingCovNanStep ==
    /\ fn = "rolling_cov_nan"
    /\ Running
    /\ i < Len(x)
    /\ LET a == PairNanAcc(acc, x, y, i + 1, window)
           e == PairNanEmit(a, i + 1, window)
       IN  /\ acc' = a
           /\ out' = [out EXCEPT !.cov = Append(@, e.cov),
                                 !.corr = Append(@, e.corr)]
    /\ i' = i + 1
    /\ pc' = "run"
    /\ UNCHANGED <<driver, fn, x, y, window, param, ref>>

Col(c) == IF c = 1 THEN x ELSE y

\* rolling_mean_axis0_np / rolling_std_axis0_np / rolling_mean_std_axis0_np:
\* the single-sequence core on each column, the columns in any order
RollingAxis0Step(c) ==
    /\ fn = "rolling_axis0"
    /\ Running
    /\ i[c] < Len(Col(c))
    /\ LET a == RollAcc(acc[c], Col(c), i[c] + 1, window)
           e == RollEmit(a, Col(c), i[c] + 1, window)
       IN  /\ acc' = [acc EXCEPT ![c] = a]
           /\ out' = [out EXCEPT ![c].mean = Append(@, e.mean),
                                 ![c].std = Append(@, e.std)]
    /\ i' = [i EXCEPT ![c] = @ + 1]
    /\ pc' = "run"
    /\ UNCHANGED <<driver, fn, x, y, window, param, ref>>

WelfordInsert ==
    /\ fn = "welford"
    /\ Running
    /\ i < Len(x)
    /\ acc' = WelfordAcc(acc, x[i + 1])
    /\ i' = i + 1
    /\ pc' = "run"
    /\ UNCHANGED <<driver, fn, x, y, window, param, out, ref>>

\* the stepped function has consumed its input and returns
Return ==
    /\ Running
    /\ \/ fn \in SteppedFns /\ i = Len(x)
       \/ fn = "rolling_axis0" /\ i[1] = Len(x) /\ i[2] = Len(y)
    /\ out' = IF fn = "welford"
              THEN [mean |-> acc.mean, var |-> WelfordVar(acc),
                    count |-> acc.count]
              ELSE out
    /\ pc' = "done"
    /\ UNCHANGED <<driver, fn, x, y, window, param, i, acc, ref>>

\* mean_nan_np, var_nan_np, std_nan_np
NanStats ==
    /\ fn = "nan_stats"
    /\ Running
    /\ out' = [mean |-> mean_nan_np(x), var |-> var_nan_np(x),
               std |-> std_nan_np(x)]
    /\ pc' = "done"
    /\ UNCHANGED <<driver, fn, x, y, window, param, i, acc, ref>>

\* cov_nan_np, corr_nan_np
CovNan ==
    /\ fn = "cov_nan"
    /\ Running
    /\ out' = [cov |-> cov_nan_np(x, y), corr |-> corr_nan_np(x, y)]
    /\ pc' = "done"
    /\ UNCHANGED <<driver, fn, x, y, window, param, i, acc, ref>>

\* test_cov_corr_rolling, static part: py_cov and py_corr, then cov_np and
\* corr_np on the same pair
Cov ==
    /\ fn = "cov"
    /\ Running
    /\ ref' = [cov |-> Ok(py_cov(x, y)), corr |-> Ok(py_corr(x, y))]
    /\ out' = [cov |-> cov_np(x, y), corr |-> corr_np(x, y)]
    /\ pc' = "done"
    /\ UNCHANGED <<driver, fn, x, y, window, param, i, acc>>

\* the benchmark's cov_matrix_np and corr_matrix_np cases: the engine on
\* the matrix X of columns x and y, and the numpy baselines on the same X,
\* of whichever numpy is installed
CovMatrix ==
    /\ fn = "cov_matrix"
    /\ Running
    /\ out' = [cov |-> cov_matrix_np(<<x, y>>),
               corr |-> corr_matrix_np(<<x, y>>)]
    /\ \E single_row_guard \in BOOLEAN :
          ref' = [cov |-> Ok(impl_numpy_cov_matrix(<<x, y>>,
                                                   single_row_guard)),
                  corr |-> Ok(impl_numpy_corr_matrix(<<x, y>>,
                                                     single_row_guard))]
    /\ pc' = "done"
    /\ UNCHANGED <<driver, fn, x, y, window, param, i, acc>>

\* test_diff_pct_cum: diff, pct_change and cumsum of the engine and of the
\* references, and the round trip diff(cumsum(x), 1)
Diff ==
    /\ fn = "diff"
    /\ Running
    /\ out' = [diff |-> diff_np(x, param),
               pct |-> pct_change_np(x, param),
               cumsum |-> cumsum_np(x),
               roundtrip |-> diff_np(cumsum_np(x), 1)]
    /\ ref' = [diff |-> Ok(py_diff(x, param)),
               pct |-> Ok(py_pct_change(x, param)),
               cumsum |-> Ok(np_cumsum(x)),
               roundtrip |-> Ok(py_diff(np_cumsum(x), 1))]
    /\ pc' = "done"
    /\ UNCHANGED <<driver, fn, x, y, window, param, i, acc>>

\* test_ecdf: py_ecdf and ecdf_np on the same x
Ecdf ==
    /\ fn = "ecdf"
    /\ Running
    /\ ref' = Ok(py_ecdf(x))
    /\ out' = ecdf_np(x)
    /\ pc' = "done"
    /\ UNCHANGED <<driver, fn, x, y, window, param, i, acc>>

\* test_quantile_bins: quantile_bins_np(x, n_bins)
QuantileBins ==
    /\ fn = "quantile_bins"
    /\ Running
    /\ out' = quantile_bins_np(x, param)
    /\ pc' = "done"
    /\ UNCHANGED <<driver, fn, x, y, window, param, i, acc, ref>>

\* test_outliers_iqr_zscore, IQR part: iqr_outliers_np and the numpy mask
IqrOutliers ==
    /\ fn = "iqr_outliers"
    /\ Running
    /\ out' = iqr_outliers_np(x, param)
    /\ ref' = Ok(py_iqr_mask(x, param))
    /\ pc' = "done"
    /\ UNCHANGED <<driver, fn, x, y, window, param, i, acc>>

\* the mann_whitney_u_np case of the backend comparison: the engine's U and
\* the scipy baseline's on the same two samples
MannWhitneyU ==
    /\ fn = "mann_whitney_u"
    /\ Running
    /\ out' = [U |-> mann_whitney_u_np(x, y)]
    /\ ref' = Ok([U |-> impl_scipy_mannwhitneyu(x, y)])
    /\ pc' = "done"
    /\ UNCHANGED <<driver, fn, x, y, window, param, i, acc>>

Next ==
    \/ PyReference
    \/ Reject
    \/ RollingStep
    \/ RollingNanStep
    \/ RollingCovStep
    \/ RollingCovNanStep
    \/ \E c \in {1, 2} : RollingAxis0Step(c)
    \/ WelfordInsert
    \/ Return
    \/ NanStats
    \/ CovNan
    \/ Cov
    \/ CovMatrix
    \/ Diff
    \/ Ecdf
    \/ QuantileBins
    \/ IqrOutliers
    \/ MannWhitneyU

Spec == Init /\ [][Next]_vars

----------------------------------------------------------------------------
(* The facade's export list and the benchmark driver *)

\* bunker_stats/__init__.py: __all__, the explicit export list
bs_all ==
    <<
      "mean_np", "std_np", "var_np", "zscore_np", "percentile_np", "iqr_np",
      "mad_np", "mean_nan_np", "std_nan_np", "var_nan_np",
      "rolling_mean_np", "rolling_std_np", "rolling_zscore_np", "ewma_np",
      "rolling_mean_nan_np", "rolling_std_nan_np", "rolling_zscore_nan_np",
      "welford_np", "sign_mask_np", "demean_with_signs_np",
      "iqr_outliers_np", "zscore_outliers_np", "minmax_scale_np",
      "robust_scale_np", "winsorize_np", "quantile_bins_np", "diff_np",
      "pct_change_np", "cumsum_np", "cummean_np", "ecdf_np", "cov_np",
      "corr_np", "cov_matrix_np", "corr_matrix_np", "rolling_cov_np",
      "rolling_corr_np", "cov_nan_np", "corr_nan_np", "rolling_cov_nan_np",
      "rolling_corr_nan_np", "kde_gaussian_np"
    >>

\* _make_cases_from_all: the explicit case specifications; of each only the
\* input kind matters to what the driver records
explicit ==
       ("percentile_np" :> "vec_f64")
    @@ ("trimmed_mean_np" :> "vec_f64")
    @@ ("diff_np" :> "vec_f64")
    @@ ("pct_change_np" :> "vec_f64")
    @@ ("pad_nan_np" :> "len_only")
    @@ ("rolling_mean_np" :> "vec_f64")
    @@ ("rolling_std_np" :> "vec_f64")
    @@ ("rolling_var_np" :> "vec_f64")
    @@ ("rolling_zscore_np" :> "vec_f64")
    @@ ("rolling_mean_std_np" :> "vec_f64")
    @@ ("ewma_np" :> "vec_f64")
    @@ ("rolling_mean_nan_np" :> "vec_nan_f64")
    @@ ("rolling_std_nan_np" :> "vec_nan_f64")
    @@ ("rolling_zscore_nan_np" :> "vec_nan_f64")
    @@ ("mean_axis_np" :> "mat_f64")
    @@ ("cov_matrix_np" :> "mat_f64")
    @@ ("corr_matrix_np" :> "mat_f64")
    @@ ("rolling_mean_axis0_np" :> "mat_f64")
    @@ ("rolling_std_axis0_np" :> "mat_f64")
    @@ ("rolling_mean_std_axis0_np" :> "mat_f64")
    @@ ("cov_np" :> "pair_vec_f64")
    @@ ("corr_np" :> "pair_vec_f64")
    @@ ("cov_nan_np" :> "pair_vec_nan_f64")
    @@ ("corr_nan_np" :> "pair_vec_nan_f64")
    @@ ("rolling_cov_np" :> "pair_vec_f64")
    @@ ("rolling_corr_np" :> "pair_vec_f64")
    @@ ("rolling_cov_nan_np" :> "pair_vec_nan_f64")
    @@ ("rolling_corr_nan_np" :> "pair_vec_nan_f64")
    @@ ("iqr_outliers_np" :> "vec_f64")
    @@ ("zscore_outliers_np" :> "vec_f64")
    @@ ("robust_scale_np" :> "vec_f64")
    @@ ("winsorize_np" :> "vec_f64")
    @@ ("quantile_bins_np" :> "vec_f64")
    @@ ("kde_gaussian_np" :> "vec_f64")
    @@ ("t_test_1samp_np" :> "vec_f64")
    @@ ("t_test_2samp_np" :> "pair_vec_f64")
    @@ ("chi2_gof_np" :> "chi2_gof")
    @@ ("chi2_independence_np" :> "chi2_ind")
    @@ ("cohens_d_2samp_np" :> "pair_vec_f64")
    @@ ("hedges_g_2samp_np" :> "pair_vec_f64")
    @@ ("mann_whitney_u_np" :> "pair_vec_f64")

\* _make_cases_from_all: one case per exported name, with the explicit
\* specification where there is one and kind vec_f64 otherwise
make_cases_from_all(names) ==
    [k \in 1..Len(names) |->
        [fn_name |-> names[k],
         kind    |-> IF names[k] \in DOMAIN explicit
                     THEN explicit[names[k]] ELSE "vec_f64"]]

\* str.strip on a piece of the --skip string, a piece being a sequence of
\* blanks " " and words
RECURSIVE strip(_)
strip(piece) ==
    IF piece = << >> THEN << >>
    ELSE IF Head(piece) = " " THEN strip(Tail(piece))
    ELSE IF piece[Len(piece)] = " "
         THEN strip(SubSeq(piece, 1, Len(piece) - 1))
    ELSE piece

\* _parse_skip_list: the --skip string is given by its comma-separated
\* pieces; the result is the set of the stripped non-empty pieces
parse_skip_list(pieces) ==
    {strip(pieces[k]) : k \in {j \in 1..Len(pieces) : strip(pieces[j]) # << >>}}

\* c.fn_name in skip
InSkip(name, skipped) == <<name>> \in skipped

\* an empty CSV cell, "", in a numeric column
Blank == << >>

\* the kinds whose generated inputs hold a vector x (_make_inputs)
HasX(kind) ==
    kind \in {"vec_f64", "vec_nan_f64", "pair_vec_f64", "pair_vec_nan_f64"}

PairKind(kind) == kind \in {"pair_vec_f64", "pair_vec_nan_f64"}

\* what a timed callable did: it raised, or it returned a dict
Raised_ == [raised |-> TRUE, value |-> [status |-> "raised"]]

Returned(status) == [raised |-> FALSE, value |-> [status |-> status]]

\* _call_bs: every known kind ends in a call of the engine function, which
\* returns or raises; only an unknown kind gives skip_unknown
call_bs(case, e) ==
    IF case.kind \in {"len_only", "vec_f64", "vec_nan_f64", "mat_f64",
                      "pair_vec_f64", "pair_vec_nan_f64", "chi2_gof",
                      "chi2_ind"}
    THEN IF e.bs_raises THEN Raised_ ELSE Returned("ok")
    ELSE Returned("skip_unknown")

\* the functions _impl_numpy has a reference implementation of
HasNumpy(name, kind) ==
    \/ name \in {"percentile_np", "diff_np", "rolling_mean_np"} /\ HasX(kind)
    \/ name \in {"mean_axis_np", "cov_matrix_np", "corr_matrix_np"}
         /\ kind = "mat_f64"
    \/ name \in {"cov_np", "cov_nan_np", "corr_np", "corr_nan_np"}
         /\ PairKind(kind)

\* the functions _impl_pandas has a reference implementation of
HasPandas(name, kind) ==
    \/ name \in {"percentile_np", "diff_np", "pct_change_np",
                 "rolling_mean_np", "rolling_std_np", "rolling_var_np",
                 "ewma_np"} /\ HasX(kind)
    \/ name \in {"cov_matrix_np", "corr_matrix_np"} /\ kind = "mat_f64"
    \/ name \in {"cov_np", "cov_nan_np", "corr_np", "corr_nan_np",
                 "rolling_cov_np", "rolling_cov_nan_np", "rolling_corr_np",
                 "rolling_corr_nan_np"} /\ PairKind(kind)

\* the functions _impl_scipy has a reference implementation of
HasScipy(name, kind) ==
    \/ name \in {"trimmed_mean_np", "winsorize_np", "t_test_1samp_np"}
         /\ HasX(kind)
    \/ name \in {"t_test_2samp_np", "mann_whitney_u_np"} /\ PairKind(kind)
    \/ name = "chi2_gof_np" /\ kind = "chi2_gof"
    \/ name = "chi2_independence_np" /\ kind = "chi2_ind"

\* a reference implementation runs the library call, which returns or
\* raises; without one the function returns skip_unavailable
RunImpl(has, e) ==
    IF has THEN (IF e.ref_raises THEN Raised_ ELSE Returned("ok"))
    ELSE Returned("skip_unavailable")

impl_python(case, e) == Returned("skip_unavailable")

impl_numpy(case, e) == RunImpl(HasNumpy(case.fn_name, case.kind), e)

impl_pandas(case, e) ==
    IF ~e.pd THEN Returned("skip_unavailable")
    ELSE RunImpl(HasPandas(case.fn_name, case.kind), e)

impl_scipy(case, e) ==
    IF ~e.sps THEN Returned("skip_unavailable")
    ELSE RunImpl(HasScipy(case.fn_name, case.kind), e)

\* _timeit with every repeat taking the time t: the median, the mean and
\* the percentiles are t, cv is std/mean = 0, or NaN when the mean is 0
timeit(res, t, mem, track_memory) ==
    LET timing == [median_s |-> t, mean_s |-> t,
                   cv |-> IF t = Zero THEN NaN ELSE Zero,
                   p50_s |-> t, p95_s |-> t, p99_s |-> t,
                   value |-> res.value]
    IN  IF track_memory THEN timing @@ ("mem_peak_mb" :> mem) ELSE timing

\* _safe_call: "ok" with the timing unless the callable raised
safe_call(res, t, mem, track_memory) ==
    IF res.raised
    THEN [status |-> "error", error |-> "repr(e)", median_s |-> Blank,
          mean_s |-> Blank, cv |-> Blank, p50_s |-> Blank, p95_s |-> Blank,
          p99_s |-> Blank]
    ELSE [status |-> "ok"] @@ timeit(res, t, mem, track_memory)

\* r.get(key, default)
Get(r, key, default) == IF key \in DOMAIN r THEN r[key] ELSE default

\* _summarize of a timed value, which is the dict the callable returned
summarize(val) ==
    [type |-> "dict",
     keys |-> IF val.status = "ok" THEN <<"status", "value">>
              ELSE <<"status">>]

\* the columns main and add_backend copy from a _safe_call result
Timings(tag, r, track_memory) ==
    LET cols ==
           ((tag \o "_status") :> r.status)
        @@ ((tag \o "_error") :> Get(r, "error", ""))
        @@ ((tag \o "_median_s") :> Get(r, "median_s", Blank))
        @@ ((tag \o "_mean_s") :> Get(r, "mean_s", Blank))
        @@ ((tag \o "_cv") :> Get(r, "cv", Blank))
        @@ ((tag \o "_p50_s") :> Get(r, "p50_s", Blank))
        @@ ((tag \o "_p95_s") :> Get(r, "p95_s", Blank))
        @@ ((tag \o "_p99_s") :> Get(r, "p99_s", Blank))
        mem  == IF track_memory
                THEN (tag \o "_mem_peak_mb") :> Get(r, "mem_peak_mb", Blank)
                ELSE << >>
        sum  == IF r.status = "ok" /\ "value" \in DOMAIN r
                THEN (tag \o "_summary") :> summarize(r.value)
                ELSE << >>
    IN  cols @@ mem @@ sum

\* add_backend: the backend's columns and its comparison with bunker-stats
add_backend(tag, res, e, track_memory, o) ==
    LET r       == safe_call(res, e.ref_time, e.mem, track_memory)
        bs_med  == o["bs_median_s"]
        tag_med == Get(r, "median_s", Blank)
        both    == r.status = "ok" /\ bs_med # Blank /\ tag_med # Blank
        faster  == both /\ Lt(Zero, bs_med)
        bs_cv   == o["bs_cv"]
        tag_cv  == Get(r, "cv", Blank)
        bs_mem  == Get(o, "bs_mem_peak_mb", Blank)
        tag_mem == Get(r, "mem_peak_mb", Blank)
        speed ==
               (("speedup_bs_vs_" \o tag) :>
                   IF faster THEN Div(tag_med, bs_med) ELSE Blank)
            @@ (("speed_diff_s_" \o tag \o "_minus_bs") :>
                   IF faster THEN Sub(tag_med, bs_med) ELSE Blank)
            @@ (("cv_diff_" \o tag \o "_minus_bs") :>
                   IF r.status = "ok" /\ bs_cv # Blank /\ tag_cv # Blank
                   THEN Sub(tag_cv, bs_cv) ELSE Blank)
        memd  == IF track_memory
                 THEN ("mem_diff_mb_" \o tag \o "_minus_bs") :>
                        IF r.status = "ok" /\ bs_mem # Blank
                             /\ tag_mem # Blank
                        THEN Sub(tag_mem, bs_mem) ELSE Blank
                 ELSE << >>
    IN  o @@ Timings(tag, r, track_memory) @@ speed @@ memd

\* the child process's main: the record it prints as its last line
child_main(case, a, e) ==
    LET r_bs == safe_call(call_bs(case, e), e.bs_time, e.mem, a.track_memory)
        o0 == ("fn" :> case.fn_name) @@ Timings("bs", r_bs, a.track_memory)
        o1 == add_backend("numpy", impl_numpy(case, e), e, a.track_memory, o0)
        o2 == add_backend("pandas", impl_pandas(case, e), e,
                          a.track_memory, o1)
        o3 == add_backend("scipy", impl_scipy(case, e), e,
                          a.track_memory, o2)
        o4 == IF a.with_python
              THEN add_backend("py", impl_python(case, e), e,
                               a.track_memory, o3)
              ELSE o3
    IN  o4 @@ ("status" :> IF o4["bs_status"] = "ok" THEN "ok" ELSE "fail")

\* the keys ending in "_status" a row can hold
StatusKeys ==
    {"bs_status", "numpy_status", "pandas_status", "scipy_status",
     "py_status"}

\* _run_case_in_subproc: what --debug-fail attaches to a row
DebugInfo(a) ==
    IF ~a.debug_fail THEN << >>
    ELSE IF a.debug_dir # "" THEN [code_head |-> "head", code_path |-> "path"]
    ELSE [code_head |-> "head"]

\* the last line of the child's stdout: the record main prints, some other
\* JSON value, or text that is not JSON (the empty string included)
LastLine(case, a, e) ==
    IF e.stdout = "record"
    THEN [json |-> "object", value |-> child_main(case, a, e)]
    ELSE IF e.stdout = "array" THEN [json |-> "array", value |-> << >>]
    ELSE [json |-> "none", value |-> << >>]

\* _run_case_in_subproc: the result row of one case
run_case_in_subproc(case, a, e) ==
    LET tails == [stdout_tail |-> "stdout", stderr_tail |-> "stderr"]
        last  == LastLine(case, a, e)
        res   == last.value
        any_bad == \E k \in DOMAIN res \cap StatusKeys : res[k] \notin {"", "ok"}
    IN  IF e.returncode # 0
        THEN [fn |-> case.fn_name, status |-> "subproc_failed",
              returncode |-> e.returncode] @@ tails @@ DebugInfo(a)
        ELSE IF last.json # "object"
        THEN [fn |-> case.fn_name, status |-> "parse_error"] @@ tails
               @@ DebugInfo(a)
        ELSE IF a.debug_fail /\ any_bad
        THEN tails @@ DebugInfo(a) @@ res @@ ("fn" :> case.fn_name)
        ELSE res @@ ("fn" :> case.fn_name)

\* main: the preferred column order
preferred ==
    <<
      "fn", "bs_status", "bs_median_s", "bs_cv", "bs_p50_s", "bs_p95_s",
      "bs_p99_s", "bs_mem_peak_mb", "speedup_bs_vs_numpy",
      "speed_diff_s_numpy_minus_bs", "cv_diff_numpy_minus_bs",
      "mem_diff_mb_numpy_minus_bs", "numpy_status", "numpy_median_s",
      "numpy_cv", "numpy_p50_s", "numpy_p95_s", "numpy_p99_s",
      "numpy_mem_peak_mb", "speedup_bs_vs_pandas",
      "speed_diff_s_pandas_minus_bs", "cv_diff_pandas_minus_bs",
      "mem_diff_mb_pandas_minus_bs", "pandas_status", "pandas_median_s",
      "pandas_cv", "pandas_p50_s", "pandas_p95_s", "pandas_p99_s",
      "pandas_mem_peak_mb", "speedup_bs_vs_scipy",
      "speed_diff_s_scipy_minus_bs", "cv_diff_scipy_minus_bs",
      "mem_diff_mb_scipy_minus_bs", "scipy_status", "scipy_median_s",
      "scipy_cv", "scipy_p50_s", "scipy_p95_s", "scipy_p99_s",
      "scipy_mem_peak_mb", "speedup_bs_vs_py", "speed_diff_s_py_minus_bs",
      "cv_diff_py_minus_bs", "mem_diff_mb_py_minus_bs", "py_status",
      "py_median_s", "py_cv", "py_p50_s", "py_p95_s", "py_p99_s",
      "py_mem_peak_mb", "status", "returncode", "stderr_tail",
      "stdout_tail", "code_path"
    >>

\* sorted(): the keys a row can hold, in Python's string order
KeyOrder ==
    <<
      "bs_cv", "bs_error", "bs_mean_s", "bs_median_s", "bs_mem_peak_mb",
      "bs_p50_s", "bs_p95_s", "bs_p99_s", "bs_status", "bs_summary",
      "code_head", "code_path", "cv_diff_numpy_minus_bs",
      "cv_diff_pandas_minus_bs", "cv_diff_py_minus_bs",
      "cv_diff_scipy_minus_bs", "fn", "mem_diff_mb_numpy_minus_bs",
      "mem_diff_mb_pandas_minus_bs", "mem_diff_mb_py_minus_bs",
      "mem_diff_mb_scipy_minus_bs", "numpy_cv", "numpy_error",
      "numpy_mean_s", "numpy_median_s", "numpy_mem_peak_mb", "numpy_p50_s",
      "numpy_p95_s", "numpy_p99_s", "numpy_status", "numpy_summary",
      "pandas_cv", "pandas_error", "pandas_mean_s", "pandas_median_s",
      "pandas_mem_peak_mb", "pandas_p50_s", "pandas_p95_s", "pandas_p99_s",
      "pandas_status", "pandas_summary", "py_cv", "py_error", "py_mean_s",
      "py_median_s", "py_mem_peak_mb", "py_p50_s", "py_p95_s", "py_p99_s",
      "py_status", "py_summary", "returncode", "scipy_cv", "scipy_error",
      "scipy_mean_s", "scipy_median_s", "scipy_mem_peak_mb", "scipy_p50_s",
      "scipy_p95_s", "scipy_p99_s", "scipy_status", "scipy_summary",
      "speed_diff_s_numpy_minus_bs", "speed_diff_s_pandas_minus_bs",
      "speed_diff_s_py_minus_bs", "speed_diff_s_scipy_minus_bs",
      "speedup_bs_vs_numpy", "speedup_bs_vs_pandas", "speedup_bs_vs_py",
      "speedup_bs_vs_scipy", "status", "stderr_tail", "stdout_tail"
    >>

Range(s) == {s[k] : k \in 1..Len(s)}

\* a mutation of Fieldnames: the sorted tail does not leave the preferred
\* keys out
Fieldnames_tail_unfiltered(rs) ==
    LET all_keys == UNION {DOMAIN rs[k] : k \in 1..Len(rs)}
        Pref(k)  == k \in all_keys
    IN  SelectSeq(preferred, Pref) \o SelectSeq(KeyOrder, Pref)

\* main: the union of the rows' keys, the preferred ones first and in the
\* preferred order, the others sorted
Fieldnames(rs) ==
    LET all_keys == UNION {DOMAIN rs[k] : k \in 1..Len(rs)}
        Pref(k)  == k \in all_keys
        Other(k) == k \in all_keys /\ k \notin Range(preferred)
    IN  SelectSeq(preferred, Pref) \o SelectSeq(KeyOrder, Other)

\* what a child does when everything works: it exits 0 and prints its
\* record, bunker-stats takes 2 time units and a reference 3
Nominal ==
    [returncode |-> 0, stdout |-> "record", bs_raises |-> FALSE,
     bs_time |-> Num(2), ref_raises |-> FALSE, ref_time |-> Num(3),
     pd |-> TRUE, sps |-> TRUE, mem |-> Num(1)]

\* the child behaviours explored
Outcomes ==
    {Nominal,
     [Nominal EXCEPT !.returncode = 1],
     [Nominal EXCEPT !.stdout = "text"],
     [Nominal EXCEPT !.stdout = "array"],
     [Nominal EXCEPT !.stdout = ""],
     [Nominal EXCEPT !.bs_raises = TRUE],
     [Nominal EXCEPT !.ref_raises = TRUE],
     [Nominal EXCEPT !.bs_time = Zero],
     [Nominal EXCEPT !.pd = FALSE, !.sps = FALSE]}

\* the cases whose child is allowed to misbehave
Focus == {"mean_np", "rolling_mean_np"}

\* the child of a case outside Focus works
ChildOf(name) == IF name \in DOMAIN env THEN env[name] ELSE Nominal

\* --skip values: "", "mean_np, rolling_mean_np ,," and "std_np,no_such_fn"
SkipStrings ==
    {<< >>,
     << <<"mean_np">>, <<" ", "rolling_mean_np", " ">>, << >>, <<" ">> >>,
     << <<"std_np">>, <<"no_such_fn">> >>}

\* the flag combinations explored
Flags ==
    {[with_python |-> FALSE, track_memory |-> FALSE, debug_fail |-> FALSE,
      debug_dir |-> ""],
     [with_python |-> TRUE, track_memory |-> TRUE, debug_fail |-> FALSE,
      debug_dir |-> ""],
     [with_python |-> FALSE, track_memory |-> FALSE, debug_fail |-> TRUE,
      debug_dir |-> ""],
     [with_python |-> FALSE, track_memory |-> FALSE, debug_fail |-> TRUE,
      debug_dir |-> "dbg"]}

\* no engine run is in progress
EngineIdle ==
    /\ fn = "none"
    /\ x = << >>
    /\ y = << >>
    /\ window = 0
    /\ param = 0
    /\ i = 0
    /\ acc = AccInit
    /\ out = NoOut
    /\ ref = NoRef
    /\ pc = "idle"

DriverInit ==
    /\ EngineIdle
    /\ \E s \in SkipStrings, f \in Flags : args = [skip |-> s] @@ f
    /\ env \in [Focus -> Outcomes]
    /\ cases = << >>
    /\ skip = {}
    /\ case_i = 0
    /\ rows = << >>
    /\ fieldnames = << >>
    /\ dpc = "start"

\* main: build the cases from the export list and parse --skip
MakeCases ==
    /\ dpc = "start"
    /\ cases' = make_cases_from_all(bs_all)
    /\ skip' = parse_skip_list(args.skip)
    /\ dpc' = "loop"
    /\ UNCHANGED <<engine, args, env, case_i, rows, fieldnames>>

\* main's loop: a case in the skip list is passed over
SkipCase ==
    /\ dpc = "loop"
    /\ case_i < Len(cases)
    /\ InSkip(cases[case_i + 1].fn_name, skip)
    /\ case_i' = case_i + 1
    /\ UNCHANGED <<engine, args, env, cases, skip, rows, fieldnames, dpc>>

\* main's loop: the case runs in a child process and its row is appended
RunCase ==
    /\ dpc = "loop"
    /\ case_i < Len(cases)
    /\ ~InSkip(cases[case_i + 1].fn_name, skip)
    /\ LET c == cases[case_i + 1]
       IN  rows' = Append(rows, run_case_in_subproc(c, args, ChildOf(c.fn_name)))
    /\ case_i' = case_i + 1
    /\ UNCHANGED <<engine, args, env, cases, skip, fieldnames, dpc>>

\* main: after the loop the CSV header is built and the rows are written
WriteCsv ==
    /\ dpc = "loop"
    /\ case_i = Len(cases)
    /\ fieldnames' = Fieldnames(rows)
    /\ dpc' = "written"
    /\ UNCHANGED <<engine, args, env, cases, skip, case_i, rows>>

DriverNext ==
    \/ MakeCases
    \/ SkipCase
    \/ RunCase
    \/ WriteCsv

\* main's control flow alone: what a step of DriverNext does to the
\* position of main (MakeCases, then SkipCase or RunCase once per case, then
\* WriteCsv)
MainAdvances ==
    \/ dpc = "start" /\ dpc' = "loop" /\ case_i' = case_i
    \/ dpc = "loop" /\ case_i < Len(cases)
          /\ dpc' = dpc /\ case_i' = case_i + 1
    \/ dpc = "loop" /\ case_i = Len(cases)
          /\ dpc' = "written" /\ case_i' = case_i

\* the driver is a sequential program: while main can advance it does (a
\* child process is taken to end).  The fairness is stated on main's
\* position, which every step of DriverNext advances in this way.
DriverSpec ==
    DriverInit /\ [][DriverNext]_vars /\ WF_<<dpc, case_i>>(MainAdvances)

----------------------------------------------------------------------------
(* Claims *)

\* the number of positions the running function has produced so far
Produced == IF pc \in {"run", "done"} THEN i ELSE 0

\* the full window x[k-w+1..k] of a position k >= w
FullWin(s, k, w) == Slice(s, k - w + 1, k)

\* C1: for a NaN-free x and 1 <= w <= n, rolling_mean(x, w) has length n,
\* equals the mean of x[i-w+1..i] at every position i >= w-1, is NaN at
\* every position i < w-1, and so agrees with the pandas baseline
\* s.rolling(window=w, center=False).mean().
C1_RollingMean ==
    (fn = "rolling" /\ ~HasNaN(x) /\ pc \in {"run", "done"}) =>
        /\ Len(out.mean) = Produced
        /\ pc = "done" => Len(out.mean) = Len(x)
        /\ \A k \in 1..Produced :
              /\ k >= window =>
                    out.mean[k] = np_mean(FullWin(x, k, window))
              /\ k < window => IsNaN(out.mean[k])
              /\ out.mean[k] = impl_pandas_rolling_mean(x, window)[k]

C1_Witness ==
    /\ fn = "rolling" /\ pc = "done" /\ ~HasNaN(x)
    /\ Len(x) = 3 /\ window = 2
    /\ IsNaN(out.mean[1])
    /\ out.mean[2] = <<1, 2>>
    /\ out.mean[3] = <<3, 2>>

\* the output sequences of the function that ran, as one list
Outputs ==
    IF fn = "rolling" THEN <<out.mean, out.var, out.std, out.zscore>>
    ELSE IF fn = "rolling_nan" THEN <<out.mean, out.std, out.zscore>>
    ELSE IF fn = "rolling_axis0"
         THEN <<out[1].mean, out[1].std, out[2].mean, out[2].std>>
    ELSE <<out.cov, out.corr>>

\* NaN of either kind of value
Missing(v) == v[1] = 0 /\ v[2] = 0

PaddedWithNaN(o) ==
    /\ Len(o) = Len(x)
    /\ \A k \in 1..Len(o) : k < window => Missing(o[k])

\* C2 as claimed: every rolling function that takes a window returns an
\* output of the input's length in which every position i < w-1 is NaN.
C2_Original ==
    (fn \in WindowFns /\ pc = "done") =>
        \A j \in 1..Len(Outputs) : PaddedWithNaN(Outputs[j])

\* C2 as amended: the plain single-sequence rolling functions, the
\* matrix-column variants and rolling_cov_nan / rolling_corr_nan return an
\* output of the input's length in which every position i < w-1 is NaN;
\* rolling_mean_nan / rolling_std_nan / rolling_zscore_nan return the input's
\* length but evaluate the partial window x[0..i] at i < w-1 (the mean is NaN
\* there exactly when that window has no valid element, std and zscore
\* whenever it has fewer than 2); rolling_cov_np and rolling_corr_np return
\* n-w+1 values, as many as the Python reference, the leading w-1 positions
\* omitted.
C2_Amended ==
    (fn \in WindowFns /\ pc = "done") =>
        /\ fn \in {"rolling", "rolling_axis0", "rolling_cov_nan"} =>
              \A j \in 1..Len(Outputs) : PaddedWithNaN(Outputs[j])
        /\ fn = "rolling_nan" =>
              /\ \A j \in 1..Len(Outputs) : Len(Outputs[j]) = Len(x)
              /\ \A k \in 1..Len(x) :
                    /\ IsNaN(out.mean[k]) <=> Valid(Win(x, k, window)) = << >>
                    /\ Len(Valid(Win(x, k, window))) < 2 =>
                          IsRootNaN(out.std[k]) /\ IsRootNaN(out.zscore[k])
        /\ fn = "rolling_cov" =>
              /\ Len(out.cov) = Len(x) - window + 1
              /\ Len(out.corr) = Len(x) - window + 1
              /\ ref.cov.status = "ok" /\ ref.corr.status = "ok"
              /\ Len(out.cov) = Len(ref.cov.value)
              /\ Len(out.corr) = Len(ref.corr.value)

\* a rolling_cov_np run of window 3 over 3 elements returned a single value,
\* and the same state space holds the padded runs
C2_Witness ==
    /\ fn = "rolling_cov" /\ pc = "done"
    /\ Len(x) = 3 /\ window = 3
    /\ Len(out.cov) = 1
    /\ NotNaN(out.cov[1])

\* C3: for equal-length NaN-free x, y and 1 <= w <= n, rolling_cov_np and
\* rolling_corr_np return exactly n-w+1 values without NaN padding, the k-th
\* being the sample (n-1) covariance, respectively the correlation, of
\* x[k..k+w-1] and y[k..k+w-1]: the values of py_rolling_cov and
\* py_rolling_corr.
C3_RollingCovTruncated ==
    (fn = "rolling_cov" /\ pc = "done") =>
        /\ Len(out.cov) = Len(x) - window + 1
        /\ Len(out.corr) = Len(x) - window + 1
        /\ (~HasNaN(x) /\ ~HasNaN(y)) =>
              /\ out.cov = ref.cov.value
              /\ out.corr = ref.corr.value
              /\ \A k \in 1..Len(out.cov) :
                    /\ out.cov[k] = np_cov(Slice(x, k, k + window - 1),
                                           Slice(y, k, k + window - 1), 1)
                    /\ out.corr[k] =
                          np_corrcoef(Slice(x, k, k + window - 1),
                                      Slice(y, k, k + window - 1))
                    /\ window >= 2 => NotNaN(out.cov[k])

C3_Witness ==
    /\ fn = "rolling_cov" /\ pc = "done"
    /\ Len(x) = 3 /\ window = 2
    /\ Len(out.cov) = 2
    /\ out.cov[1] = <<-1, 2>>
    /\ out.cov[2] = <<-2, 1>>
    /\ out.corr[2] = <<-1, 1, "sqrt">>

\* the non-NaN elements of the window x[max(0, i-w+1)..i] of position k
ValidWin(k) == Valid(Win(x, k, window))

\* C4: the window of a NaN-aware rolling function at position i is
\* x[max(0, i-w+1)..i]; rolling_mean_nan is the mean of its non-NaN elements
\* and NaN only when it has none (min_periods = 1, so a position i < w-1 with
\* a valid element is not NaN); rolling_std_nan and rolling_zscore_nan are
\* NaN whenever it has fewer than 2 non-NaN elements.  The outputs are those
\* of the pandas references of test_nan_behavior.
C4_RollingNanMinPeriods ==
    (fn = "rolling_nan" /\ pc \in {"run", "done"}) =>
        /\ Len(out.mean) = Produced
        /\ Produced >= 1 => acc.count = Len(ValidWin(Produced))
        /\ \A k \in 1..Produced :
              /\ out.mean[k] = np_nanmean(Win(x, k, window))
              /\ IsNaN(out.mean[k]) <=> ValidWin(k) = << >>
              /\ Len(ValidWin(k)) < 2 =>
                    IsRootNaN(out.std[k]) /\ IsRootNaN(out.zscore[k])
              /\ out.mean[k] = rolling_mean_nan_ref(x, window)[k]
              /\ out.zscore[k] = pandas_rolling_zscore(x, window)[k]

\* window 3: position 0 holds a value although i < w-1, and position 1 has a
\* mean but, with one valid element in its window, no std
C4_Witness ==
    /\ fn = "rolling_nan" /\ pc = "done"
    /\ Len(x) = 3 /\ window = 3
    /\ out.mean[1] = Num(2)
    /\ IsNaN(x[2])
    /\ out.mean[2] = Num(2) /\ IsRootNaN(out.std[2])
    /\ out.std[3] = <<1, 2, "sqrt">>

\* the indices of the window of position k at which both x and y are valid
ValidPairs(k) ==
    {j \in Max(1, k - window + 1)..k : NotNaN(x[j]) /\ NotNaN(y[j])}

\* the window of position k is full and none of its members is NaN
FullValid(k) == k >= window /\ Cardinality(ValidPairs(k)) = window

\* C5 as claimed: rolling_cov_nan / rolling_corr_nan at position i is NaN
\* when the window ending at i holds fewer than 2 valid pairs, and otherwise
\* is the covariance / correlation of exactly those valid pairs (stated for
\* the positions i >= w-1, whose window [i-w+1, i] lies inside the input).
C5_Original ==
    (fn = "rolling_cov_nan" /\ pc \in {"run", "done"}) =>
        \A k \in window..Produced :
            LET m == ValidPairs(k)
            IN  /\ Cardinality(m) < 2 =>
                      IsNaN(out.cov[k]) /\ IsRootNaN(out.corr[k])
                /\ Cardinality(m) >= 2 =>
                      /\ out.cov[k] = np_cov(Filter(x, m, 1), Filter(y, m, 1), 1)
                      /\ out.corr[k] =
                            np_corrcoef(Filter(x, m, 1), Filter(y, m, 1))

\* C5 as amended: rolling_cov_nan / rolling_corr_nan at position i is NaN
\* when the window ending at i holds fewer than 2 valid pairs, and also when
\* it is not a full window of w valid pairs (i < w-1, or a member of some
\* pair is NaN); otherwise it is the covariance / correlation of the window's
\* w pairs.  The count used is the number of indices valid in both
\* sequences, not a count derived from each sequence's own valid count.
C5_Amended ==
    (fn = "rolling_cov_nan" /\ pc \in {"run", "done"}) =>
        /\ Produced >= 1 => acc.count = pd_count_x_y(x, y, Produced, window)
        /\ \A k \in 1..Produced :
            LET m == ValidPairs(k)
            IN  /\ (Cardinality(m) < 2 \/ ~FullValid(k)) =>
                      IsNaN(out.cov[k]) /\ IsRootNaN(out.corr[k])
                /\ (Cardinality(m) >= 2 /\ FullValid(k)) =>
                      /\ out.cov[k] = np_cov(FullWin(x, k, window),
                                             FullWin(y, k, window), 1)
                      /\ out.corr[k] = np_corrcoef(FullWin(x, k, window),
                                                   FullWin(y, k, window))
                      /\ NotNaN(out.cov[k])

\* window 2: position 1 has a value, position 2 is NaN because x[2] is, and
\* the pair count was 1 there although y alone had 2 valid elements
C5_Witness ==
    /\ fn = "rolling_cov_nan" /\ pc = "done"
    /\ Len(x) = 3 /\ window = 2
    /\ out.cov[2] = <<1, 2>>
    /\ IsNaN(x[3]) /\ NotNaN(y[3])
    /\ IsNaN(out.cov[3])
    /\ acc.count = 1

\* C6: at every position rolling_cov_nan_np and rolling_corr_nan_np agree
\* with the full-window pandas reference of test_rolling_cov_corr_nan: both
\* NaN or equal; in particular the output is NaN wherever the reference is,
\* that is at i < w-1 and wherever some x[j] or y[j] of the window is NaN.
C6_AgreesWithFullWindowRef ==
    (fn = "rolling_cov_nan" /\ pc = "done") =>
        /\ Len(out.cov) = Len(x) /\ Len(out.corr) = Len(x)
        /\ \A k \in 1..Len(x) :
              /\ out.cov[k] = rolling_cov_nan_ref(x, y, window)[k]
              /\ out.corr[k] = rolling_corr_nan_ref(x, y, window)[k]
              /\ (k < window \/ HasNaN(Win(x, k, window))
                    \/ HasNaN(Win(y, k, window))) =>
                    /\ IsNaN(rolling_cov_nan_ref(x, y, window)[k])
                    /\ IsNaN(out.cov[k])
                    /\ IsRootNaN(out.corr[k])

\* window 2 over 3 pairs: the reference and the engine are NaN at position 1
\* whose window holds a NaN, and equal and not NaN at position 2
C6_Witness ==
    /\ fn = "rolling_cov_nan" /\ pc = "done"
    /\ Len(x) = 3 /\ window = 2
    /\ IsNaN(y[1])
    /\ IsNaN(out.cov[2])
    /\ out.cov[3] = <<-1, 2>>
    /\ rolling_cov_nan_ref(x, y, window)[3] = <<-1, 2>>
    /\ out.corr[3] = <<-1, 1, "sqrt">>

\* C7: cov_nan and corr_nan are computed over the indices where both x[i] and
\* y[i] are non-NaN only: the sample covariance / correlation of the two
\* sequences restricted to those indices, and NaN when there are fewer than 2
\* of them; for x = [1,NaN,3,4], y = [2,2,NaN,5] indices 0 and 3 are used.
C7_CovNanPairwise ==
    (fn = "cov_nan" /\ pc = "done") =>
        LET m == PairMask(x, y)
        IN  /\ out.cov = cov_nan_ref(x, y)
            /\ out.corr = corr_nan_ref(x, y)
            /\ Cardinality(m) < 2 => IsNaN(out.cov) /\ IsRootNaN(out.corr)
            /\ Cardinality(m) >= 2 =>
                  /\ out.cov = py_cov(Filter(x, m, 1), Filter(y, m, 1))
                  /\ out.corr = py_corr(Filter(x, m, 1), Filter(y, m, 1))
            /\ (x = ExampleX /\ y = ExampleY) =>
                  /\ m = {1, 4}
                  /\ out.cov = py_cov(<<Num(1), Num(4)>>, <<Num(2), Num(5)>>)
                  /\ out.cov = <<9, 2>>
                  /\ out.corr = <<1, 1, "sqrt">>

C7_Witness ==
    /\ fn = "cov_nan" /\ pc = "done"
    /\ x = ExampleX /\ y = ExampleY
    /\ out.cov = <<9, 2>>

\* C8: mean_nan, std_nan and var_nan are the statistic of the non-NaN
\* elements only (std and var with the n-1 denominator over the valid
\* count); with fewer than 1 (mean) or 2 (std, var) non-NaN elements,
\* an all-NaN input included, they return NaN and raise no error.
C8_ScalarNanStats ==
    (fn = "nan_stats") =>
        /\ pc # "error"
        /\ pc = "done" =>
              LET v == Valid(x)
              IN  /\ out.mean = np_nanmean(x)
                  /\ out.std = np_nanstd(x, 1)
                  /\ out.var = np_var(v, 1)
                  /\ out.std = Sqrt(out.var)
                  /\ IsNaN(out.mean) <=> Len(v) < 1
                  /\ Len(v) < 2 => IsNaN(out.var) /\ IsRootNaN(out.std)
                  /\ Len(v) >= 2 => NotNaN(out.var) /\ ~IsRootNaN(out.std)

\* x = [NaN, 0, 2]: the mean is 1 and the variance 2, over the two valid
\* elements
C8_Witness ==
    /\ fn = "nan_stats" /\ pc = "done"
    /\ x = <<NaN, Num(0), Num(2)>>
    /\ out.mean = Num(1)
    /\ out.var = Num(2)

\* an all-NaN input gives NaN, not an error
C8_WitnessAllNaN ==
    /\ fn = "nan_stats" /\ pc = "done"
    /\ x = <<NaN, NaN>>
    /\ IsNaN(out.mean) /\ IsRootNaN(out.std)

\* C9: welford(x) inserts one value at a time (count += 1; mean += (v -
\* mean) / count; M2 += (v - old_mean) * (v - new_mean)) and returns (mean,
\* variance, count): count is the length of x, mean the arithmetic mean of a
\* non-empty x, variance the two-pass sample variance sum((x_i - mean)^2) /
\* (count - 1) when count >= 2 and NaN when count < 2.
C9_Welford ==
    (fn = "welford" /\ pc \in {"run", "done"}) =>
        LET seen == SubSeq(x, 1, i)
        IN  /\ acc.count = i
            /\ i >= 1 => acc.mean = np_mean(seen)
            /\ acc.M2 = Sum(Sq(Dev(seen)))
            /\ pc = "done" =>
                  /\ i = Len(x)
                  /\ out.count = Len(x)
                  /\ Len(x) >= 1 => out.mean = np_mean(x)
                  /\ out.var = np_var(x, 1)
                  /\ out.count >= 2 =>
                        out.var = Div(Sum(Sq(Dev(x))), Num(out.count - 1))
                  /\ out.count < 2 => IsNaN(out.var)

\* welford([0, 1, 5]) = (2, 7, 3)
C9_Witness ==
    /\ fn = "welford" /\ pc = "done"
    /\ x = <<Num(0), Num(1), Num(5)>>
    /\ out.mean = Num(2) /\ out.var = Num(7) /\ out.count = 3

\* the Python references have been called in this run
RefCalled == fn = "rolling_cov" /\ pc # "call"

\* C10 as claimed: a call of a windowed or pairwise function with an invalid
\* argument (window <= 0, window > n, sequences of different lengths) fails
\* with an error; it never returns a best-effort result such as an empty
\* sequence.
C10_Original ==
    ~ArgsOk =>
        /\ pc \notin {"run", "done"}
        /\ RefCalled => ref.cov.status # "ok" /\ ref.corr.status # "ok"

\* C10 as amended: a call with an invalid argument fails with an error
\* surfaced to the caller in the engine's functions, and for two sequences
\* of different lengths also in the Python references py_rolling_cov and
\* py_rolling_corr (an AssertionError); for window <= 0 or window > n these
\* two references do not fail but return an empty sequence.
C10_Amended ==
    /\ ~ArgsOk =>
          /\ pc \notin {"run", "done"}
          /\ out = NoOut \/ out = <<NoOut, NoOut>>
          /\ RefCalled =>
                /\ Len(x) # Len(y) =>
                      /\ ref.cov.status = "AssertionError"
                      /\ ref.corr.status = "AssertionError"
                /\ Len(x) = Len(y) =>
                      ref.cov = Ok(<< >>) /\ ref.corr = Ok(<< >>)
    /\ pc = "error" => ~ArgsOk
    /\ (ArgsOk /\ RefCalled) => ref.cov.status = "ok"

\* window 0: the reference returned an empty sequence, the engine rejected
C10_Witness ==
    /\ fn = "rolling_cov" /\ pc = "error"
    /\ Len(x) = Len(y) /\ window = 0
    /\ ref.cov = Ok(<< >>)

\* different lengths: both fail
C10_WitnessMismatch ==
    /\ fn = "rolling_cov" /\ pc = "error"
    /\ Len(x) # Len(y)
    /\ ref.cov.status = "AssertionError"

\* every element of s is the same value (zero variance)
Constant(s) == \A a \in 1..Len(s), b \in 1..Len(s) : s[a] = s[b]

\* a correlation value that is neither +infinity nor -infinity
NotInfinite(r) == r[2] # 0 \/ IsRootNaN(r)

\* C11: corr - static (corr_np), NaN-aware (corr_nan_np) and at every
\* position of rolling_corr_np and rolling_corr_nan_np - is NaN whenever x or
\* y has zero variance over the data used for that result; no error is
\* raised for it and no result is an infinity.  The static result is the one
\* np.corrcoef gives, NaN included.
C11_ZeroVarianceCorrIsNaN ==
    /\ (fn = "cov" /\ pc = "done") =>
          /\ (Constant(x) \/ Constant(y)) => IsRootNaN(out.corr)
          /\ NotInfinite(out.corr)
          /\ out.corr = ref.corr.value
    /\ (fn = "cov_nan" /\ pc = "done") =>
          LET m == PairMask(x, y)
          IN  /\ (Constant(Filter(x, m, 1)) \/ Constant(Filter(y, m, 1))) =>
                    IsRootNaN(out.corr)
              /\ NotInfinite(out.corr)
    /\ (fn = "rolling_cov" /\ pc \in {"run", "done"}) =>
          \A k \in 1..Len(out.corr) :
              /\ (Constant(Slice(x, k, k + window - 1))
                    \/ Constant(Slice(y, k, k + window - 1))) =>
                    IsRootNaN(out.corr[k])
              /\ NotInfinite(out.corr[k])
    /\ (fn = "rolling_cov_nan" /\ pc \in {"run", "done"}) =>
          \A k \in 1..Len(out.corr) :
              /\ (Constant(Win(x, k, window)) \/ Constant(Win(y, k, window))) =>
                    IsRootNaN(out.corr[k])
              /\ NotInfinite(out.corr[k])
    /\ fn = "cov" => pc # "error"
    /\ (fn \in {"cov_nan", "rolling_cov", "rolling_cov_nan"} /\ pc = "error")
          => ~ArgsOk

\* corr_np([1,1,1], [0,1,2]): x has zero variance, the covariance is 0 and
\* the correlation NaN
C11_Witness ==
    /\ fn = "cov" /\ pc = "done"
    /\ x = <<Num(1), Num(1), Num(1)>>
    /\ y = <<Num(0), Num(1), Num(2)>>
    /\ out.cov = Num(0)
    /\ IsRootNaN(out.corr)

\* rolling_corr_np with window 2 over x = [0,0,1]: the first window has zero
\* variance in x and is NaN, the second has a value
C11_WitnessRolling ==
    /\ fn = "rolling_cov" /\ pc = "done"
    /\ x = <<Num(0), Num(0), Num(1)>>
    /\ y = <<Num(0), Num(1), Num(2)>>
    /\ window = 2
    /\ IsRootNaN(out.corr[1])
    /\ out.corr[2] = <<1, 1, "sqrt">>

\* C12: corr_matrix(X) of an n x p matrix is a symmetric p x p matrix whose
\* diagonal entries are exactly 1, also for a column of zero variance, and
\* whose off-diagonal entry (a, b) is corr(column a, column b); cov_matrix(X)
\* is symmetric with entry (a, b) = cov(column a, column b).  Where the
\* numpy baselines np.cov / np.corrcoef (rowvar=False) return a matrix, which
\* they do for every X of two or more rows, the two agree with them entry by
\* entry, except on the diagonal of a zero-variance column, where np.corrcoef
\* is NaN; for a single row some numpy releases return the 0-d variance of
\* that row instead.
C12_CovCorrMatrix ==
    (fn = "cov_matrix" /\ pc = "done") =>
        LET P == {1, 2}
        IN  /\ Len(out.corr) = 2 /\ Len(out.cov) = 2
            /\ \A a \in P : Len(out.corr[a]) = 2 /\ Len(out.cov[a]) = 2
            /\ \A a \in P, b \in P :
                  /\ out.corr[a][b] = out.corr[b][a]
                  /\ out.cov[a][b] = out.cov[b][a]
                  /\ a = b => out.corr[a][b] = One
                  /\ a # b => out.corr[a][b] = py_corr(Col(a), Col(b))
                  /\ out.cov[a][b] = py_cov(Col(a), Col(b))
            /\ ref.cov.value.ndim = ref.corr.value.ndim
            /\ Len(x) >= 2 => ref.cov.value.ndim = 2
            /\ IF ref.cov.value.ndim = 2
               THEN /\ out.cov = ref.cov.value.value
                    /\ \A a \in P, b \in P :
                          IF a = b /\ Constant(Col(a))
                          THEN IsRootNaN(ref.corr.value.value[a][b])
                          ELSE out.corr[a][b] = ref.corr.value.value[a][b]
               ELSE /\ Len(x) = 1
                    /\ ref.cov.value.value = np_var(<<x[1], y[1]>>, 1)
                    /\ ref.corr.value.value \in {Num(1), NaN}

\* the first column has zero variance: its diagonal entry is 1 where
\* np.corrcoef has NaN, and its correlation with the other column is NaN
C12_Witness ==
    /\ fn = "cov_matrix" /\ pc = "done"
    /\ x = <<Num(1), Num(1), Num(1)>>
    /\ y = <<Num(0), Num(2), Num(1)>>
    /\ out.corr[1][1] = One
    /\ ref.corr.value.ndim = 2
    /\ IsRootNaN(ref.corr.value.value[1][1])
    /\ IsRootNaN(out.corr[1][2])
    /\ out.cov[2][2] = Num(1)

\* a matrix of one row, [[0, 1]]: the engine's matrices are 2 x 2, a numpy
\* with the single-row guard returns the 0-d variance 1/2 of the row
C12_WitnessSingleRow ==
    /\ fn = "cov_matrix" /\ pc = "done"
    /\ x = <<Num(0)>> /\ y = <<Num(1)>>
    /\ ref.cov.value.ndim = 0 /\ ref.cov.value.value = <<1, 2>>
    /\ ref.corr.value.ndim = 0 /\ ref.corr.value.value = Num(1)
    /\ IsNaN(out.cov[1][2])

\* the same row on a numpy without the guard: 2 x 2 matrices of NaN
C12_WitnessSingleRowMatrix ==
    /\ fn = "cov_matrix" /\ pc = "done"
    /\ x = <<Num(0)>> /\ y = <<Num(1)>>
    /\ ref.cov.value.ndim = 2
    /\ out.cov = ref.cov.value.value

\* two columns of correlation 1/2
C12_WitnessValue ==
    /\ fn = "cov_matrix" /\ pc = "done"
    /\ x = <<Num(0), Num(1), Num(2)>>
    /\ y = <<Num(0), Num(2), Num(1)>>
    /\ out.cov[1][2] = <<1, 2>> /\ out.cov[2][1] = <<1, 2>>
    /\ out.corr[1][2] = <<1, 4, "sqrt">>

\* C13: cov(x, y) = cov(y, x) and corr(x, y) = corr(y, x) for all
\* equal-length x, y (both NaN, or the same value), in the engine and in the
\* references py_cov / py_corr alike, and corr(x, x) = 1 for every
\* non-constant x.
C13_Symmetric ==
    (fn = "cov" /\ pc = "done") =>
        /\ out.cov = cov_np(y, x)
        /\ out.corr = corr_np(y, x)
        /\ ref.cov.value = py_cov(y, x)
        /\ ref.corr.value = py_corr(y, x)
        /\ out.cov = ref.cov.value
        /\ (x = y /\ ~Constant(x)) =>
              /\ out.corr = One
              /\ ref.corr.value = One
              /\ out.cov = np_var(x, 1)

\* cov([0,1,2], [2,0,1]) = -1/2 in either order
C13_Witness ==
    /\ fn = "cov" /\ pc = "done"
    /\ x = <<Num(0), Num(1), Num(2)>>
    /\ y = <<Num(2), Num(0), Num(1)>>
    /\ out.cov = <<-1, 2>>
    /\ cov_np(y, x) = <<-1, 2>>
    /\ out.corr = <<-1, 4, "sqrt">>

\* corr(x, x) = 1 for x = [0,1,2]
C13_WitnessSelf ==
    /\ fn = "cov" /\ pc = "done"
    /\ x = <<Num(0), Num(1), Num(2)>> /\ y = x
    /\ out.corr = One

RECURSIVE RollAccAt(_, _, _)
\* the accumulators of the single-sequence core after it consumed s[1..k]
RollAccAt(s, k, w) ==
    IF k = 0 THEN AccInit ELSE RollAcc(RollAccAt(s, k - 1, w), s, k, w)

\* the single-sequence rolling result of s alone at position k
RollingAlone(s, k, w) == RollEmit(RollAccAt(s, k, w), s, k, w)

\* C14: a matrix-column rolling call returns an n x p matrix whose column c
\* is the single-sequence rolling result of column c alone (and, for a
\* NaN-free column, the pandas baseline), whatever the order in which the
\* columns are processed: at every point of every interleaving the part of
\* column c produced so far is determined by column c alone.
C14_ColumnsIndependent ==
    (fn = "rolling_axis0" /\ pc \in {"run", "done"}) =>
        \A c \in {1, 2} :
            /\ Len(out[c].mean) = i[c] /\ Len(out[c].std) = i[c]
            /\ pc = "done" => i[c] = Len(x)
            /\ \A k \in 1..i[c] :
                  /\ out[c].mean[k] = RollingAlone(Col(c), k, window).mean
                  /\ out[c].std[k] = RollingAlone(Col(c), k, window).std
                  /\ ~HasNaN(Col(c)) =>
                        /\ out[c].mean[k] =
                              impl_pandas_rolling_mean(Col(c), window)[k]
                        /\ out[c].std[k] =
                              impl_pandas_rolling_std(Col(c), window)[k]

\* column 1 is complete while column 2 has produced one position only
C14_Witness ==
    /\ fn = "rolling_axis0" /\ pc = "run"
    /\ window = 2
    /\ x = <<Num(0), Num(1), Num(1)>>
    /\ y = <<Num(1), Num(0), Num(1)>>
    /\ i = <<3, 1>>
    /\ out[1].mean = <<NaN, <<1, 2>>, Num(1)>>
    /\ out[1].std = <<RootNaN, <<1, 2, "sqrt">>, <<0, 1, "sqrt">>>>
    /\ out[2].mean = <<NaN>>

\* the same matrix with column 2 processed first, and the finished call
C14_WitnessOtherOrder ==
    /\ fn = "rolling_axis0" /\ pc = "run"
    /\ window = 2
    /\ x = <<Num(0), Num(1), Num(1)>>
    /\ y = <<Num(1), Num(0), Num(1)>>
    /\ i = <<0, 3>>
    /\ out[2].mean = <<NaN, <<1, 2>>, <<1, 2>>>>

\* C15 as stated: for every sequence x, diff(cumsum(x), periods=1)[i] = x[i]
\* for all i >= 1, position 0 is NaN, and cumsum(x)[i] is the sum of
\* x[0..i].
C15_Original ==
    (fn = "diff" /\ pc = "done") =>
        /\ IsNaN(out.roundtrip[1])
        /\ \A k \in 1..Len(x) :
              /\ out.cumsum[k] = Sum(SubSeq(x, 1, k))
              /\ k >= 2 => out.roundtrip[k] = x[k]

\* C15, amended: cumsum(x)[i] is the sum of x[0..i] and position 0 of
\* diff(cumsum(x), periods=1) is NaN; diff(cumsum(x), 1)[i] = x[i] for every
\* i >= 1 such that x[0..i] holds no NaN, and from the first NaN of x on
\* both cumsum(x)[i] and diff(cumsum(x), 1)[i] are NaN.  The references
\* np.cumsum and py_diff behave alike.
C15_DiffCumsumRoundTrip ==
    (fn = "diff" /\ pc = "done") =>
        /\ Len(out.cumsum) = Len(x) /\ Len(out.roundtrip) = Len(x)
        /\ out.cumsum = ref.cumsum.value
        /\ out.roundtrip = ref.roundtrip.value
        /\ IsNaN(out.roundtrip[1])
        /\ \A k \in 1..Len(x) :
              /\ out.cumsum[k] = Sum(SubSeq(x, 1, k))
              /\ IF HasNaN(SubSeq(x, 1, k))
                 THEN IsNaN(out.cumsum[k]) /\ IsNaN(out.roundtrip[k])
                 ELSE /\ NotNaN(out.cumsum[k])
                      /\ k >= 2 => out.roundtrip[k] = x[k]

\* a NaN in front: the later positions do not give x back
C15_WitnessNaN ==
    /\ fn = "diff" /\ pc = "done"
    /\ x = <<Num(1), NaN, Num(2)>>
    /\ IsNaN(out.cumsum[3])
    /\ IsNaN(out.roundtrip[3])

\* cumsum([1,2,4,8,16]) = [1,3,7,15,31] and its diff gives back 2,4,8,16
C15_Witness ==
    /\ fn = "diff" /\ pc = "done"
    /\ x = DiffExample
    /\ out.cumsum = <<Num(1), Num(3), Num(7), Num(15), Num(31)>>
    /\ out.roundtrip = <<NaN, Num(2), Num(4), Num(8), Num(16)>>

\* C16: diff(x, p) and pct_change(x, p) have the input's length, with
\* diff[i] = x[i] - x[i-p] and pct_change[i] = x[i] / x[i-p] - 1 for i >= p
\* and NaN for i < p; a pct_change position whose denominator x[i-p] is 0 is
\* NaN, never an infinity; both equal py_diff and py_pct_change, and
\* diff([1,2,4,8,16], 1) = [NaN,1,2,4,8], pct_change = [NaN,1,1,1,1].
C16_DiffPctChange ==
    (fn = "diff" /\ pc = "done") =>
        /\ Len(out.diff) = Len(x) /\ Len(out.pct) = Len(x)
        /\ out.diff = ref.diff.value
        /\ out.pct = ref.pct.value
        /\ \A k \in 1..Len(x) :
              /\ k <= param => IsNaN(out.diff[k]) /\ IsNaN(out.pct[k])
              /\ k > param =>
                    /\ out.diff[k] = Sub(x[k], x[k - param])
                    /\ x[k - param] = Num(0) => IsNaN(out.pct[k])
                    /\ (NotNaN(x[k - param]) /\ x[k - param] # Num(0)) =>
                          out.pct[k] =
                              Sub(Div(x[k], x[k - param]), Num(1))
              /\ ~np_isinf(out.pct[k])
        /\ (x = DiffExample /\ param = 1) =>
              /\ out.diff = <<NaN, Num(1), Num(2), Num(4), Num(8)>>
              /\ out.pct = <<NaN, Num(1), Num(1), Num(1), Num(1)>>

\* pct_change([0,2,1], 1): the denominator of position 1 is 0 and the
\* result NaN; position 2 is 1/2 - 1
C16_Witness ==
    /\ fn = "diff" /\ pc = "done"
    /\ x = <<Num(0), Num(2), Num(1)>> /\ param = 1
    /\ out.diff = <<NaN, Num(2), Num(-1)>>
    /\ out.pct = <<NaN, NaN, <<-1, 2>>>>

\* the example of the design
C16_WitnessExample ==
    /\ fn = "diff" /\ pc = "done"
    /\ x = DiffExample /\ param = 1
    /\ out.pct = <<NaN, Num(1), Num(1), Num(1), Num(1)>>

\* periods = 2
C16_WitnessPeriods ==
    /\ fn = "diff" /\ pc = "done"
    /\ x = <<Num(1), Num(0), Num(2)>> /\ param = 2
    /\ out.diff = <<NaN, NaN, Num(1)>>
    /\ out.pct = <<NaN, NaN, Num(1)>>

\* how many times the value v occurs in s
Occurrences(s, v) == Cardinality({k \in 1..Len(s) : s[k] = v})

\* C17: ecdf(x) returns the values of x sorted ascending - a permutation of
\* x, duplicates kept - paired with the probabilities k / n of the ranks
\* k = 1..n; the probabilities are non-decreasing and the last one is
\* exactly 1.  Values and probabilities are those of py_ecdf.
C17_Ecdf ==
    (fn = "ecdf" /\ pc = "done") =>
        LET n == Len(x)
        IN  /\ Len(out.values) = n /\ Len(out.probs) = n
            /\ \A k \in 1..(n - 1) : ~Lt(out.values[k + 1], out.values[k])
            /\ \A v \in Vals : Occurrences(out.values, v) = Occurrences(x, v)
            /\ \A k \in 1..n : out.probs[k] = Div(Num(k), Num(n))
            /\ \A k \in 1..(n - 1) : ~Lt(out.probs[k + 1], out.probs[k])
            /\ out.probs[n] = Num(1)
            /\ out.values = ref.value.values
            /\ out.probs = ref.value.probs

\* ecdf([2,0,2]) = ([0,2,2], [1/3, 2/3, 1])
C17_Witness ==
    /\ fn = "ecdf" /\ pc = "done"
    /\ x = <<Num(2), Num(0), Num(2)>>
    /\ out.values = <<Num(0), Num(2), Num(2)>>
    /\ out.probs = <<<<1, 3>>, <<2, 3>>, Num(1)>>

\* np.bincount(bins, minlength=n_bins): how many elements each bin holds
np_bincount(bins, nb) ==
    [b \in 0..(nb - 1) |-> Cardinality({k \in 1..Len(bins) : bins[k] = b})]

\* C18: quantile_bins(x, n_bins) gives every element a bin index in
\* 0..n_bins-1, the minimum (bin 0) and the maximum included; an element
\* equal to the interior quantile edge j (the j/n_bins quantile of x, as
\* np.quantile computes it) goes to the lower bin, one of 0..j-1; and for
\* at least 10 * n_bins evenly spread distinct values no bin is empty.
C18_QuantileBins ==
    (fn = "quantile_bins" /\ pc = "done") =>
        /\ Len(out) = Len(x)
        /\ \A k \in 1..Len(x) :
              /\ out[k] \in 0..(param - 1)
              /\ x[k] = np_quantile(x, Num(0)) => out[k] = 0
              /\ \A j \in 1..(param - 1) :
                    x[k] = np_quantile(x, Norm(j, param)) => out[k] <= j - 1
        /\ (Len(x) >= 10 * param /\ \E d \in {0, 1} : x = Ramp(10 * param + d))
              => \A b \in 0..(param - 1) : np_bincount(out, param)[b] > 0

\* 20 evenly spread values in 2 bins: 10 in each
C18_Witness ==
    /\ fn = "quantile_bins" /\ pc = "done"
    /\ param = 2 /\ x = Ramp(20)
    /\ np_bincount(out, 2)[0] = 10
    /\ np_bincount(out, 2)[1] = 10

\* [0,1,2] in 2 bins: the median 1 is the interior edge and goes to bin 0
C18_WitnessEdge ==
    /\ fn = "quantile_bins" /\ pc = "done"
    /\ param = 2 /\ x = <<Num(0), Num(1), Num(2)>>
    /\ np_quantile(x, <<1, 2>>) = Num(1)
    /\ out = <<0, 0, 1>>

\* C19: iqr_outliers(x, k) flags element i exactly when x[i] < Q1 - k*IQR or
\* x[i] > Q3 + k*IQR, Q1 and Q3 being the 25th and 75th percentiles by
\* linear interpolation at position q*(n-1) and IQR = Q3 - Q1: the mask the
\* test computes with np.quantile.  For [10,12,11,13,9,8,50,-20,10,11] and
\* k = 1.5 exactly 50 and -20 are flagged.
C19_IqrOutliers ==
    (fn = "iqr_outliers" /\ pc = "done") =>
        LET q1  == np_quantile(x, <<1, 4>>)
            q3  == np_quantile(x, <<3, 4>>)
            iqr == Sub(q3, q1)
        IN  /\ Len(out) = Len(x)
            /\ out = ref.value
            /\ \A j \in 1..Len(x) :
                  out[j] <=> \/ Lt(x[j], Sub(q1, Mul(param, iqr)))
                             \/ Lt(Add(q3, Mul(param, iqr)), x[j])
            /\ (x = IqrExample /\ param = <<3, 2>>) =>
                  /\ q1 = <<37, 4>> /\ q3 = <<47, 4>>
                  /\ {j \in 1..Len(x) : out[j]} = {7, 8}

C19_Witness ==
    /\ fn = "iqr_outliers" /\ pc = "done"
    /\ x = IqrExample /\ param = <<3, 2>>
    /\ out[7] /\ out[8]
    /\ {j \in 1..Len(x) : out[j]} = {7, 8}

\* [0,0,5] with k = 1/2: Q1 = 0, Q3 = 5/2, the fence is 15/4 and 5 is flagged
C19_WitnessSmall ==
    /\ fn = "iqr_outliers" /\ pc = "done"
    /\ x = <<Num(0), Num(0), Num(5)>> /\ param = <<1, 2>>
    /\ out = <<FALSE, FALSE, TRUE>>

\* every element of s is greater than every element of t
Above(s, t) == \A a \in 1..Len(s), b \in 1..Len(t) : Lt(t[b], s[a])

\* C20: whenever the two samples are fully separated, in either direction,
\* mann_whitney_u(x, y) returns U = n1 * n2; U is computed from the rank sum
\* over the combined sample with tied values given their averaged mid-rank:
\* it is the larger of the rank-sum statistic U1 = R1 - n1(n1+1)/2 and its
\* complement n1*n2 - U1, U1 being the statistic of the scipy baseline.
C20_MannWhitneySeparated ==
    (fn = "mann_whitney_u" /\ pc = "done") =>
        LET n1n2 == Num(Len(x) * Len(y))
            u1   == ref.value.U
            u2   == Sub(n1n2, u1)
        IN  /\ (Above(x, y) \/ Above(y, x)) => out.U = n1n2
            /\ out.U \in {u1, u2}
            /\ ~Lt(out.U, u1) /\ ~Lt(out.U, u2)
            /\ out.U = mann_whitney_u_np(y, x)

\* the first sample lies entirely above the second
C20_Witness ==
    /\ fn = "mann_whitney_u" /\ pc = "done"
    /\ x = <<Num(2), Num(1)>> /\ y = <<Num(0), Num(0), Num(0)>>
    /\ out.U = Num(6)

\* the first sample lies entirely below the second
C20_WitnessBelow ==
    /\ fn = "mann_whitney_u" /\ pc = "done"
    /\ x = <<Num(0), Num(1)>> /\ y = <<Num(2), Num(2)>>
    /\ out.U = Num(4) /\ ref.value.U = Num(0)

\* a tie across the samples counts one half
C20_WitnessTies ==
    /\ fn = "mann_whitney_u" /\ pc = "done"
    /\ x = <<Num(1), Num(2)>> /\ y = <<Num(1)>>
    /\ out.U = <<3, 2>>

\* C21: the export list holds every function the benchmark driver has an
\* explicit case specification for, so that the driver, which builds one
\* case per exported name, has a case for each of them.
C21_ExportsWholeCatalogue ==
    dpc \in {"loop", "written"} =>
        \A name \in DOMAIN explicit :
            \E k \in 1..Len(cases) : cases[k].fn_name = name

\* the sums of the window s[max(0, k-w+1)..k] recomputed from scratch
ScratchPlain(s, k, w) ==
    LET v == Win(s, k, w)
    IN  [count |-> Len(v), sum |-> Sum(v), sumSq |-> Sum(Sq(v))]

\* the same over the non-NaN elements of the window
ScratchValid(s, k, w) ==
    LET v == Valid(Win(s, k, w))
    IN  [count |-> Len(v), sum |-> Sum(v), sumSq |-> Sum(Sq(v))]

\* the pair sums over the index set m of the windows of s and t
ScratchPairs(s, t, k, w, all) ==
    LET ws == Win(s, k, w)
        wt == Win(t, k, w)
        m  == IF all THEN 1..Len(ws) ELSE PairMask(ws, wt)
        sf == Filter(ws, m, 1)
        tf == Filter(wt, m, 1)
    IN  [count |-> Cardinality(m), sum |-> Sum(sf), sumY |-> Sum(tf),
         sumSq |-> Sum(Sq(sf)), sumYSq |-> Sum(Sq(tf)),
         sumXY |-> Sum(Prod(sf, tf))]

\* the accumulator a holds, field by field, the recomputed sums r
AccIs(a, r) == \A f \in DOMAIN r : a[f] = r[f]

\* the count is within 0..w and no variance derived from the sums is negative
AccSane(a, w) ==
    /\ a.count \in 0..w
    /\ a.count >= 2 =>
          /\ ~Lt(VarOf(a.sumSq, a.sum, a.count), Zero)
          /\ ~Lt(VarOf(a.sumYSq, a.sumY, a.count), Zero)

\* the sliding-window run has processed at least one position
Sliding == fn \in WindowFns /\ pc \in {"run", "done"}

\* the plain single-sequence core on s agrees with the recomputation
PlainAgree(a, s, k, w) == AccIs(a, ScratchPlain(s, k, w))

\* the plain single-sequence core on s once s[1..k] holds a NaN: the sums
\* are NaN, the count is that of the window
PlainPoisoned(a, s, k, w) ==
    /\ IsNaN(a.sum) /\ IsNaN(a.sumSq)
    /\ a.count = ScratchPlain(s, k, w).count

\* the plain pairwise core: every sum a NaN has entered is NaN, the others
\* and the count equal the recomputed ones
PairsUpToNaN(a, s, t, k, w) ==
    LET r  == ScratchPairs(s, t, k, w, TRUE)
        nx == HasNaN(SubSeq(s, 1, k))
        ny == HasNaN(SubSeq(t, 1, k))
    IN  /\ a.count = r.count
        /\ IF nx THEN IsNaN(a.sum) /\ IsNaN(a.sumSq)
           ELSE a.sum = r.sum /\ a.sumSq = r.sumSq
        /\ IF ny THEN IsNaN(a.sumY) /\ IsNaN(a.sumYSq)
           ELSE a.sumY = r.sumY /\ a.sumYSq = r.sumYSq
        /\ IF nx \/ ny THEN IsNaN(a.sumXY) ELSE a.sumXY = r.sumXY

\* the accumulators of the NaN-aware cores equal the recomputed sums
NanAwareAgree ==
    /\ fn = "rolling_nan" => AccIs(acc, ScratchValid(x, i, window))
    /\ fn = "rolling_cov_nan" =>
          AccIs(acc, ScratchPairs(x, y, i, window, FALSE))

AccAllSane ==
    IF fn = "rolling_axis0" THEN \A c \in {1, 2} : AccSane(acc[c], window)
    ELSE AccSane(acc, window)

C22_WitnessPoisoned ==
    /\ fn = "rolling" /\ pc = "run" /\ window = 1 /\ i = 2
    /\ IsNaN(x[1]) /\ x[2] = Num(1)
    /\ IsNaN(acc.sum)

\* the plain pairwise core after a NaN of x has left the window: the sums
\* of y agree with the recomputation, those x entered stay NaN
C22_WitnessPairsPoisoned ==
    /\ fn = "rolling_cov" /\ pc = "run" /\ window = 1 /\ i = 2
    /\ IsNaN(x[1]) /\ x[2] = Num(1) /\ y = <<Num(1), Num(1)>>
    /\ IsNaN(acc.sum) /\ IsNaN(acc.sumXY) /\ acc.sumY = Num(1)

\* a matrix column after its NaN has left the window
C22_WitnessColumnPoisoned ==
    /\ fn = "rolling_axis0" /\ pc = "run" /\ window = 1
    /\ i[1] = 2 /\ IsNaN(x[1]) /\ x[2] = Num(1)
    /\ IsNaN(acc[1].sum)

\* the pairwise NaN-aware core with one valid pair in a window of two
C22_WitnessPairs ==
    /\ fn = "rolling_cov_nan" /\ pc = "run" /\ window = 2 /\ i = 2
    /\ IsNaN(x[1]) /\ NotNaN(x[2]) /\ NotNaN(y[2])
    /\ acc.count = 1 /\ acc.sumXY = Mul(x[2], y[2])

RECURSIVE PairAccAt(_, _, _, _)
\* the accumulators of the plain pairwise core after it consumed k pairs
PairAccAt(s, t, k, w) ==
    IF k = 0 THEN AccInit ELSE PairAcc(PairAccAt(s, t, k - 1, w), s, t, k, w)

\* the plain rolling covariance / correlation of the window ending at k
RollingPairAlone(s, t, k, w) == PairEmit(PairAccAt(s, t, k, w), w)

\* C23: on input without NaN each NaN-aware variant returns what its plain
\* counterpart returns: mean_nan = mean, std_nan = std, var_nan = var,
\* cov_nan = cov, corr_nan = corr (both being the numpy baseline the
\* benchmark gives the two of them), and the NaN-aware rolling mean, std,
\* zscore, cov and corr agree with the plain rolling function at every
\* position i >= w-1.
C23_NanAwareEqualsPlain ==
    /\ (fn = "nan_stats" /\ pc = "done" /\ ~HasNaN(x)) =>
          /\ out.mean = mean_np(x)
          /\ out.var = var_np(x)
          /\ out.std = std_np(x)
    /\ (fn = "cov_nan" /\ pc = "done" /\ ~HasNaN(x) /\ ~HasNaN(y)) =>
          /\ out.cov = cov_np(x, y)
          /\ out.corr = corr_np(x, y)
          /\ out.cov = impl_numpy_cov(x, y)
          /\ out.corr = impl_numpy_corr(x, y)
    /\ (fn = "rolling_nan" /\ pc \in {"run", "done"} /\ ~HasNaN(x)) =>
          \A k \in window..i :
             LET e == RollingAlone(x, k, window)
             IN  /\ out.mean[k] = e.mean
                 /\ out.std[k] = e.std
                 /\ out.zscore[k] = e.zscore
    /\ (fn = "rolling_cov_nan" /\ pc \in {"run", "done"}
          /\ ~HasNaN(x) /\ ~HasNaN(y)) =>
          \A k \in window..i :
             LET e == RollingPairAlone(x, y, k, window)
             IN  /\ out.cov[k] = e.cov
                 /\ out.corr[k] = e.corr

\* cov_nan_np on a pair without NaN
C23_Witness ==
    /\ fn = "cov_nan" /\ pc = "done"
    /\ x = <<Num(0), Num(1), Num(2)>> /\ y = <<Num(1), Num(0), Num(0)>>
    /\ out.cov = <<-1, 2>> /\ out.cov = cov_np(x, y)

\* the NaN-aware rolling std on a NaN-free input, at a full window
C23_WitnessRolling ==
    /\ fn = "rolling_nan" /\ pc = "done" /\ window = 2
    /\ x = <<Num(0), Num(2), Num(1)>>
    /\ out.mean[3] = <<3, 2>>
    /\ out.std[3] = RollingAlone(x, 3, 2).std
    /\ out.mean[1] # RollingAlone(x, 1, 2).mean

C23_WitnessRollingCov ==
    /\ fn = "rolling_cov_nan" /\ pc = "done" /\ window = 2
    /\ x = <<Num(0), Num(1), Num(0)>> /\ y = <<Num(0), Num(1), Num(1)>>
    /\ out.cov[2] = <<1, 2>> /\ out.cov[3] = Zero

C23_WitnessScalar ==
    /\ fn = "nan_stats" /\ pc = "done"
    /\ x = <<Num(0), Num(2)>>
    /\ out.mean = Num(1) /\ out.var = Num(2)

\* the case the row of that name was built from
CaseNamed(name) ==
    CHOOSE c \in Range(cases) : c.fn_name = name

\* what the backend's implementation did in the child of that case
ImplOf(tag, case, e) ==
    IF tag = "numpy" THEN impl_numpy(case, e)
    ELSE IF tag = "pandas" THEN impl_pandas(case, e)
    ELSE IF tag = "scipy" THEN impl_scipy(case, e)
    ELSE impl_python(case, e)

BackendTags == {"numpy", "pandas", "scipy", "py"}

\* C24: in a result row <backend>_status is "ok" and a speedup or a speed
\* difference against the backend is non-empty only if the backend ran a
\* reference implementation: when the backend's implementation returned
\* skip_unavailable, or the bunker-stats call returned skip_unknown, the
\* status is not "ok" and no speedup is reported.
C24_SkippedBackendNotOk ==
    \A k \in 1..Len(rows) :
       LET row == rows[k]
           c   == CaseNamed(row["fn"])
           e   == ChildOf(row["fn"])
       IN  /\ \A tag \in BackendTags :
                 (/\ (tag \o "_status") \in DOMAIN row
                  /\ ImplOf(tag, c, e).value.status = "skip_unavailable")
                 => /\ row[tag \o "_status"] # "ok"
                    /\ row["speedup_bs_vs_" \o tag] = Blank
                    /\ row["speed_diff_s_" \o tag \o "_minus_bs"] = Blank
           /\ ("bs_status" \in DOMAIN row
                  /\ call_bs(c, e).value.status = "skip_unknown")
               => row["bs_status"] # "ok"

\* the exported names among the first n that the skip list does not hold
ExpectedNames(n) ==
    LET NotSkipped(name) == ~InSkip(name, skip)
    IN  SelectSeq(SubSeq(bs_all, 1, n), NotSkipped)

\* one row per exported function not in the skip list, in export order, each
\* with the function's name under "fn"
RowPerCase ==
    LET names == ExpectedNames(case_i)
    IN  /\ Len(rows) = Len(names)
        /\ \A k \in 1..Len(rows) : rows[k]["fn"] = names[k]

\* the child's record has a status column that is neither empty nor "ok"
AnyBad(rec) ==
    \E k \in DOMAIN rec \cap StatusKeys : rec[k] \notin {"", "ok"}

\* the row is the record with the keys --debug-fail attaches
Attached(row, rec) ==
    /\ DOMAIN row = DOMAIN rec \cup {"stdout_tail", "stderr_tail", "code_head"}
                       \cup (IF args.debug_dir # "" THEN {"code_path"} ELSE {})
    /\ \A k \in DOMAIN rec : row[k] = rec[k]

\* the form of the row of a case: exact says that a child's record is
\* always taken over unchanged
RowForm(row, exact) ==
    LET c   == CaseNamed(row["fn"])
        e   == ChildOf(row["fn"])
        rec == child_main(c, args, e)
    IN  IF e.returncode # 0 THEN row["status"] = "subproc_failed"
        ELSE IF e.stdout # "record" THEN row["status"] = "parse_error"
        ELSE IF exact \/ ~(args.debug_fail /\ AnyBad(rec)) THEN row = rec
        ELSE Attached(row, rec)

\* every key of every row is a CSV column exactly once
KeysOnceInHeader ==
    dpc = "written" =>
       \A k \in 1..Len(rows) : \A key \in DOMAIN rows[k] :
          Cardinality({j \in 1..Len(fieldnames) : fieldnames[j] = key}) = 1

RowsOriginal ==
    /\ RowPerCase
    /\ \A k \in 1..Len(rows) : RowForm(rows[k], TRUE)
    /\ KeysOnceInHeader

RowsAmended ==
    /\ RowPerCase
    /\ \A k \in 1..Len(rows) : RowForm(rows[k], FALSE)
    /\ KeysOnceInHeader

\* C25 as stated: the driver produces exactly one row per exported function
\* not in the skip list, in export order; a failing case never keeps the
\* later ones from running (the run reaches the CSV with every case
\* handled); a child exiting non-zero gives a row of status subproc_failed,
\* a last stdout line that is no JSON object a row of status parse_error,
\* otherwise the row is the child's own record; every row has the name
\* under "fn" and every key of every row is a CSV column exactly once.
C25_Original == [] RowsOriginal /\ <>(dpc = "written" /\ case_i = Len(bs_all))

\* C25 amended: as C25, except that under --debug-fail the row of a child
\* whose record holds a status that is neither empty nor "ok" is the record
\* together with stdout_tail, stderr_tail and code_head (and code_path under
\* --debug-dir).
C25_Amended == [] RowsAmended /\ <>(dpc = "written" /\ case_i = Len(bs_all))

\* the first case's child exits non-zero, the second prints no JSON, and
\* all the later cases ran: one row per export reached the CSV
C25_Witness ==
    /\ dpc = "written"
    /\ skip = {}
    /\ Len(rows) = Len(bs_all)
    /\ rows[1]["fn"] = "mean_np" /\ rows[1]["status"] = "subproc_failed"
    /\ \E k \in 2..Len(rows) :
          rows[k]["fn"] = "rolling_mean_np" /\ rows[k]["status"] = "parse_error"
    /\ rows[Len(rows)]["status"] = "ok"
    /\ Len(fieldnames) > Len(preferred) \div 2

\* --debug-fail with a failing backend: the row is the record with the
\* attachments
C25_WitnessAttached ==
    /\ dpc = "written"
    /\ args.debug_fail
    /\ \E k \in 1..Len(rows) :
          /\ rows[k]["status"] = "fail"
          /\ "code_head" \in DOMAIN rows[k]

\* two names of the skip list are exported: two rows fewer
C25_WitnessSkipped ==
    /\ dpc = "written"
    /\ Len(rows) = Len(bs_all) - 2
    /\ rows[1]["fn"] # "mean_np"

====
